---- MODULE Spec2Model ----
(***************************************************************************)
(* Chrysorrhoe wallet server: the transfer protocol (routes/transfers.js), *)
(* third-party payments and receipts (routes/thirdPartyPayments.js), the   *)
(* monthly interest settlement (services/InterestService.js) and the       *)
(* single shared SQLite connection they all run on (config/database.js).   *)
(*                                                                         *)
(* Every request handler and every settlement run is an async function;    *)
(* each `await dbAsync.*` is a suspension point, so a handler is modelled   *)
(* as a task whose steps are its database statements.  All tasks issue     *)
(* their statements on the same connection: BEGIN / COMMIT / ROLLBACK act  *)
(* on the connection, not on the task that issued them.                    *)
(*                                                                         *)
(* Money is counted in storage units; Cent units make one hundredth of the *)
(* currency, so an amount has at most 2 fractional digits iff it is a      *)
(* multiple of Cent.                                                       *)
(***************************************************************************)
EXTENDS Integers, Sequences, FiniteSets, TLC

\* ------------------------------------------------------------------ bounds
MaxOps == 2
MaxSeqOps == 3
MaxFaults == 1
MaxPeriod == 2

\* --------------------------------------------------------------- constants
\* storage units per hundredth of the currency
Cent == 2
\* monthlyInterestRate = 0.01 / 12
RateNum == 1
RateDen == 1200
\* the balance that earns one hundredth of interest a month
Stake == RateDen * Cent

Tasks == {1, 2}
WalletIds == {"w1", "w2"}
Periods == 1..MaxPeriod
NoRef == ""

\* rows of the wallets table ------------------------------------------------
Username(id) == IF id = "w1" THEN "alice" ELSE "bob"
\* SELECT * FROM wallets ORDER BY created_at DESC: newest wallet first
WalletOrder == <<"w2", "w1">>
InitBalance(id) == IF id = "w1" THEN Stake ELSE Stake \div 2

NoWallet == [id |-> "none", username |-> NoRef, balance |-> 0]
NoLog == [id |-> 0, period |-> 0, status |-> "NONE", total_wallets |-> 0,
          processed_count |-> 0, total_interest |-> 0, error_message |-> ""]
\* InterestScheduler as constructed (lines 10-14): monthlyJob = checkJob = null
\* (0), no job scheduled, no call of start() under way
NoJob == 0
NoSched == [monthlyJob |-> NoJob, checkJob |-> NoJob, jobs |-> {}, installed |-> 0,
            starting |-> 0, phase |-> "constructed", fired |-> {}]

NoDb == [bal |-> [w \in WalletIds |-> 0], txs |-> <<>>, logs |-> {}, created |-> {}, deleted |-> {}]
NoReq == [fromWalletId |-> NoRef, toWalletId |-> NoRef, fromUsername |-> NoRef,
          toUsername |-> NoRef, amount |-> 0]

\* the redemption codes of data/cdks.json, all ACTIVE and unexpired
CdkKeys == {"k1"}
CdkAmount(key) == 3 * Cent
LoadedCdks == [mem |-> [k \in CdkKeys |-> "ACTIVE"], file |-> [k \in CdkKeys |-> "ACTIVE"]]

VARIABLES
  db,        \* what a statement on the connection reads and writes:
             \*   bal  : wallets.balance by wallet id
             \*   txs  : rows of `transactions`, in insertion order
             \*   logs : rows of `interest_logs`
             \*   created : rows of `wallets` inserted since the start
             \*   deleted : ids of the rows of `wallets` deleted since the start
  inTx,      \* the connection has an open transaction
  snap,      \* the database as of the open transaction's BEGIN (what ROLLBACK restores)
  nextId,    \* source of fresh interest_logs ids (uuidv4)
  tasks,     \* the running handlers: program counter and locals
  last,      \* outcome of the handler that returned most recently
  pre,       \* where handlers run one at a time: the database as it was when the
             \* handler now running (or the one that returned last) was called
  ops,       \* handlers started so far
  faults,    \* statements that have thrown an I/O error so far
  rate,      \* InterestService.monthlyInterestRate, in units of 1 / RateDen
  cdks,      \* the redemption codes: mem is CdkService.cdks, file is data/cdks.json
  sched      \* the interest scheduler: its two job references and node-schedule's jobs

vars == <<db, inTx, snap, nextId, tasks, last, pre, ops, faults, rate, cdks, sched>>

\* =========================================================================
\* config/database.js: the connection
\* =========================================================================
\* BEGIN TRANSACTION succeeds only when the connection has no open transaction
\* ("cannot start a transaction within a transaction" otherwise).
\* faulty variant: a connection that accepts BEGIN inside an open transaction
BeginOkNested(open) == TRUE
BeginOk(open) == ~open

\* COMMIT and ROLLBACK succeed only when a transaction is open
\* ("cannot commit/rollback - no transaction is active" otherwise).
\* faulty variant: a connection on which COMMIT and ROLLBACK always fail
EndOkNever(open) == FALSE
EndOk(open) == open

\* What ROLLBACK leaves on the connection: the state as of BEGIN.
\* faulty variant: a ROLLBACK that undoes nothing
RollbackKeep(cur, atBegin) == cur
RollbackState(cur, atBegin) == atBegin

\* The durable (committed) database.
Committed == IF inTx THEN snap ELSE db

\* =========================================================================
\* repositories/WalletRepository.js
\* =========================================================================
WalletRow(d, id) == [id |-> id, username |-> Username(id), balance |-> d.bal[id]]

\* the wallets table has a row with this id
RowExists(d, id) == id \in WalletIds /\ id \notin d.deleted

FindById(d, id) == IF RowExists(d, id) THEN WalletRow(d, id) ELSE NoWallet

FindByUsername(d, name) ==
  IF \E id \in WalletIds : RowExists(d, id) /\ Username(id) = name
    THEN WalletRow(d, CHOOSE id \in WalletIds : RowExists(d, id) /\ Username(id) = name)
    ELSE NoWallet

FindAll(d) ==
  LET Present(row) == RowExists(d, row.id) IN
  SelectSeq([i \in 1..Len(WalletOrder) |-> WalletRow(d, WalletOrder[i])], Present)

\* updateBalance rejects a negative balance before any statement is issued
BalanceAcceptedAny(newBalance) == TRUE
BalanceAccepted(newBalance) == newBalance >= 0

SetBalance(d, id, newBalance) == [d EXCEPT !.bal[id] = newBalance]

\* updateBalance goes through: the check on the value, then an UPDATE that
\* changes a row (changes === 0 throws 'Wallet does not exist')
UpdateAccepted(d, id, newBalance) == BalanceAccepted(newBalance) /\ RowExists(d, id)

\* config/database.js line 17: PRAGMA foreign_keys = ON
\* faulty variant: a connection that does not enforce foreign keys
ForeignKeysOff == FALSE
ForeignKeysOn == TRUE

\* some row of `transactions` names the wallet
Referenced(d, id) ==
  \E i \in DOMAIN d.txs : d.txs[i].from_wallet_id = id \/ d.txs[i].to_wallet_id = id

\* FOREIGN KEY (from_wallet_id / to_wallet_id) REFERENCES wallets(id), on INSERT
ForeignKeys(d, from, to) ==
  ForeignKeysOn => \A ref \in {from, to} \ {NoRef} : RowExists(d, ref)

\* =========================================================================
\* repositories/TransactionRepository.js
\* =========================================================================
ValidTypes == {"transfer", "initial_deposit", "interest_credit", "interest_debit",
               "third_party_payment", "third_party_receipt"}

CreateAcceptedAny(amount, type) == TRUE
CreateAccepted(amount, type) == type \in ValidTypes /\ amount > 0

Movement(from, to, amount, type, description) ==
  [from_wallet_id |-> from, to_wallet_id |-> to, amount |-> amount,
   transaction_type |-> type, description |-> description]

\* faulty variant: the INSERT overwrites the newest row
AppendTxOverwrite(d, m) ==
  [d EXCEPT !.txs = IF @ = <<>> THEN <<m>> ELSE [@ EXCEPT ![Len(@)] = m]]
AppendTx(d, m) == [d EXCEPT !.txs = Append(@, m)]


\* =========================================================================
\* tasks
\* =========================================================================
Idle == [kind |-> "idle", pc |-> "idle", req |-> NoReq, src |-> "none", dst |-> "none",
         fromWallet |-> NoWallet, toWallet |-> NoWallet, outcome |-> "",
         period |-> 0, pending |-> <<>>, allOk |-> TRUE, logId |-> 0,
         wallets |-> <<>>, i |-> 0, totalInterest |-> 0, processedCount |-> 0,
         code |-> NoRef, username |-> <<>>, initial |-> [type |-> "undefined", n |-> 0],
         processedPeriods |-> <<>>]

NoLast == [kind |-> "none", outcome |-> "", src |-> "none", dst |-> "none", amount |-> 0,
           period |-> 0, processedCount |-> 0, totalInterest |-> 0,
           processedPeriods |-> <<>>]

Set(t, rec) == tasks' = [tasks EXCEPT ![t] = rec]

CanStart(t) == tasks[t].pc = "idle"

\* no handler is between its first and its last statement
Quiet == \A t \in Tasks : tasks[t].pc = "idle"
Solo(t) == \A u \in Tasks \ {t} : tasks[u].pc = "idle"

\* the handler of task t returns
Return(t, outcome, processedCount, totalInterest) ==
  LET k == tasks[t] IN
  /\ Set(t, Idle)
  /\ last' = [kind |-> k.kind, outcome |-> outcome, src |-> k.src, dst |-> k.dst,
              amount |-> k.req.amount, period |-> k.period,
              processedCount |-> processedCount, totalInterest |-> totalInterest,
              processedPeriods |-> k.processedPeriods]

\* a request body naming both wallets by id
ById(from, to, amount) == [NoReq EXCEPT !.fromWalletId = from, !.toWalletId = to,
                                        !.amount = amount]

\* =========================================================================
\* routes/transfers.js
\* =========================================================================
\* at most 2 fractional digits: Math.round(amount * 100) === amount * 100
TwoDecimals(amount) == amount % Cent = 0

\* validateTransfer: "next" when the request is passed on, else the rejection
ValidateTransfer(d, req) ==
  IF req.fromWalletId = NoRef /\ req.fromUsername = NoRef THEN "invalid"
  ELSE IF req.toWalletId = NoRef /\ req.toUsername = NoRef THEN "invalid"
  ELSE IF /\ req.fromWalletId # NoRef /\ req.fromUsername # NoRef
          /\ FindByUsername(d, req.fromUsername) # NoWallet
          /\ FindByUsername(d, req.fromUsername).id # req.fromWalletId THEN "invalid"
  ELSE IF /\ req.toWalletId # NoRef /\ req.toUsername # NoRef
          /\ FindByUsername(d, req.toUsername) # NoWallet
          /\ FindByUsername(d, req.toUsername).id # req.toWalletId THEN "invalid"
  ELSE IF \/ (req.fromWalletId # NoRef /\ req.toWalletId # NoRef
                /\ req.fromWalletId = req.toWalletId)
          \/ (req.fromUsername # NoRef /\ req.toUsername # NoRef
                /\ req.fromUsername = req.toUsername) THEN "self"
  ELSE IF req.amount <= 0 THEN "invalid"
  ELSE IF ~TwoDecimals(req.amount) THEN "invalid"
  ELSE "next"

\* executeTransfer, lines 189-193 and 205-209: the id wins over the username
ResolveFrom(d, req) ==
  IF req.fromWalletId # NoRef THEN FindById(d, req.fromWalletId)
  ELSE IF req.fromUsername # NoRef THEN FindByUsername(d, req.fromUsername)
  ELSE NoWallet

ResolveTo(d, req) ==
  IF req.toWalletId # NoRef THEN FindById(d, req.toWalletId)
  ELSE IF req.toUsername # NoRef THEN FindByUsername(d, req.toUsername)
  ELSE NoWallet

\* line 220
\* faulty variant: the check on the resolved wallets left out
SameWalletNever(fromWallet, toWallet) == FALSE
SameWallet(fromWallet, toWallet) == fromWallet.id = toWallet.id

\* line 229
\* faulty variant: the balance check left out
InsufficientNever(balance, amount) == FALSE
Insufficient(balance, amount) == balance < amount

\* lines 240 and 244
\* faulty variant: the sender is not debited
NewFromBalanceKept(balance, amount) == balance
NewFromBalance(balance, amount) == balance - amount
NewToBalance(balance, amount) == balance + amount

\* a transfer task enters executeTransfer
EnterTransfer(t, req) ==
  Set(t, [Idle EXCEPT !.kind = "transfer", !.pc = "begin", !.req = req,
                      !.src = ResolveFrom(db, req).id, !.dst = ResolveTo(db, req).id])

\* a request rejected before executeTransfer is entered
Reject(t, req, outcome) ==
  /\ Set(t, Idle)
  /\ last' = [NoLast EXCEPT !.kind = "transfer", !.outcome = outcome,
                            !.src = ResolveFrom(db, req).id, !.dst = ResolveTo(db, req).id,
                            !.amount = req.amount]

\* POST /api/transfers
PostTransfer(t, req) ==
  /\ CanStart(t)
  /\ ops' = ops + 1
  /\ IF ValidateTransfer(db, req) = "next"
       THEN EnterTransfer(t, req) /\ UNCHANGED last
       ELSE Reject(t, req, ValidateTransfer(db, req))
  /\ UNCHANGED <<db, inTx, snap, nextId, faults>>

\* POST /api/transfers/by-username
PostByUsername(t, fromUsername, toUsername, amount) ==
  LET asNamed == [NoReq EXCEPT !.fromUsername = fromUsername, !.toUsername = toUsername,
                               !.amount = amount]
      fromWallet == FindByUsername(db, fromUsername)
      toWallet == FindByUsername(db, toUsername)
      transferData == [NoReq EXCEPT !.fromWalletId = fromWallet.id,
                                    !.toWalletId = toWallet.id, !.amount = amount]
  IN
  /\ CanStart(t)
  /\ ops' = ops + 1
  /\ IF fromUsername = NoRef \/ toUsername = NoRef THEN Reject(t, asNamed, "invalid")
     ELSE IF fromUsername = toUsername THEN Reject(t, asNamed, "self")
     ELSE IF amount <= 0 THEN Reject(t, asNamed, "invalid")
     ELSE IF fromWallet = NoWallet \/ toWallet = NoWallet THEN Reject(t, asNamed, "notfound")
     ELSE IF ValidateTransfer(db, transferData) # "next"
       THEN Reject(t, transferData, ValidateTransfer(db, transferData))
     ELSE EnterTransfer(t, transferData) /\ UNCHANGED last
  /\ UNCHANGED <<db, inTx, snap, nextId, faults>>

\* the exported executeTransfer called directly (test_transfer_by_username.js)
CallExecuteTransfer(t, req) ==
  /\ CanStart(t)
  /\ ops' = ops + 1
  /\ EnterTransfer(t, req)
  /\ UNCHANGED <<db, inTx, snap, nextId, faults, last>>

\* line 184: await dbAsync.beginTransaction()
TransferBegin(t) ==
  /\ tasks[t].kind = "transfer" /\ tasks[t].pc = "begin"
  /\ IF BeginOk(inTx)
       THEN /\ inTx' = TRUE /\ snap' = db
            /\ Set(t, [tasks[t] EXCEPT !.pc = "findFrom"])
            /\ UNCHANGED last
       ELSE \* outer catch: 500, nothing rolled back
            /\ Return(t, "error", 0, 0)
            /\ UNCHANGED <<inTx, snap>>
  /\ UNCHANGED <<db, nextId, ops, faults>>

\* lines 188-201
TransferFindFrom(t) ==
  LET fromWallet == ResolveFrom(db, tasks[t].req) IN
  /\ tasks[t].kind = "transfer" /\ tasks[t].pc = "findFrom"
  /\ IF fromWallet = NoWallet
       THEN Set(t, [tasks[t] EXCEPT !.pc = "earlyRollback", !.outcome = "notfound"])
       ELSE Set(t, [tasks[t] EXCEPT !.pc = "findTo", !.fromWallet = fromWallet])
  /\ UNCHANGED <<db, inTx, snap, nextId, last, ops, faults>>

\* lines 203-237
TransferFindTo(t) ==
  LET k == tasks[t]
      toWallet == ResolveTo(db, k.req)
      early(outcome) == Set(t, [k EXCEPT !.pc = "earlyRollback", !.outcome = outcome])
  IN
  /\ k.kind = "transfer" /\ k.pc = "findTo"
  /\ IF toWallet = NoWallet THEN early("notfound")
     ELSE IF SameWallet(k.fromWallet, toWallet) THEN early("self")
     ELSE IF Insufficient(k.fromWallet.balance, k.req.amount) THEN early("insufficient")
     ELSE Set(t, [k EXCEPT !.pc = "updFrom", !.toWallet = toWallet,
                           !.req = [NoReq EXCEPT !.amount = k.req.amount]])
  /\ UNCHANGED <<db, inTx, snap, nextId, last, ops, faults>>

\* `await dbAsync.rollback(); return res.status(4xx)` of lines 196, 212, 221, 230
TransferEarlyRollback(t) ==
  /\ tasks[t].kind = "transfer" /\ tasks[t].pc = "earlyRollback"
  /\ IF EndOk(inTx)
       THEN /\ db' = RollbackState(db, snap) /\ inTx' = FALSE /\ snap' = NoDb
            /\ Return(t, tasks[t].outcome, 0, 0)
       ELSE \* the rollback throws inside the inner try
            /\ Set(t, [tasks[t] EXCEPT !.pc = "catchRollback"])
            /\ UNCHANGED <<db, inTx, snap, last>>
  /\ UNCHANGED <<nextId, ops, faults>>

\* lines 239-245: walletRepo.updateBalance, the sender then the receiver
TransferUpdate(t) ==
  LET k == tasks[t]
      sender == k.pc = "updFrom"
      id == IF sender THEN k.fromWallet.id ELSE k.toWallet.id
      newBalance == IF sender THEN NewFromBalance(k.fromWallet.balance, k.req.amount)
                              ELSE NewToBalance(k.toWallet.balance, k.req.amount)
  IN
  /\ k.kind = "transfer" /\ k.pc \in {"updFrom", "updTo"}
  /\ \/ /\ UpdateAccepted(db, id, newBalance)
        /\ db' = SetBalance(db, id, newBalance)
        /\ Set(t, [k EXCEPT !.pc = IF sender THEN "updTo" ELSE "insTx"])
        /\ UNCHANGED faults
     \/ /\ ~UpdateAccepted(db, id, newBalance)
        /\ Set(t, [k EXCEPT !.pc = "catchRollback"])
        /\ UNCHANGED <<db, faults>>
     \/ \* the UPDATE fails
        /\ faults < MaxFaults /\ faults' = faults + 1
        /\ Set(t, [k EXCEPT !.pc = "catchRollback"])
        /\ UNCHANGED db
  /\ UNCHANGED <<inTx, snap, nextId, last, ops>>

\* lines 247-254: transactionRepo.create
TransferInsert(t) ==
  LET k == tasks[t] IN
  /\ k.kind = "transfer" /\ k.pc = "insTx"
  /\ \/ /\ CreateAccepted(k.req.amount, "transfer")
        /\ ForeignKeys(db, k.fromWallet.id, k.toWallet.id)
        /\ db' = AppendTx(db, Movement(k.fromWallet.id, k.toWallet.id, k.req.amount,
                                       "transfer", 0))
        /\ Set(t, [k EXCEPT !.pc = "commit"])
        /\ UNCHANGED faults
     \/ /\ ~(/\ CreateAccepted(k.req.amount, "transfer")
             /\ ForeignKeys(db, k.fromWallet.id, k.toWallet.id))
        /\ Set(t, [k EXCEPT !.pc = "catchRollback"])
        /\ UNCHANGED <<db, faults>>
     \/ \* the INSERT fails
        /\ faults < MaxFaults /\ faults' = faults + 1
        /\ Set(t, [k EXCEPT !.pc = "catchRollback"])
        /\ UNCHANGED db
  /\ UNCHANGED <<inTx, snap, nextId, last, ops>>

\* lines 256-284: commit, respond 201
TransferCommit(t) ==
  /\ tasks[t].kind = "transfer" /\ tasks[t].pc = "commit"
  /\ IF EndOk(inTx)
       THEN /\ inTx' = FALSE /\ snap' = NoDb
            /\ Return(t, "ok", 0, 0)
       ELSE /\ Set(t, [tasks[t] EXCEPT !.pc = "catchRollback"])
            /\ UNCHANGED <<inTx, snap, last>>
  /\ UNCHANGED <<db, nextId, ops, faults>>

\* lines 286-314: rollback, rethrow, respond 500
TransferCatchRollback(t) ==
  /\ tasks[t].kind = "transfer" /\ tasks[t].pc = "catchRollback"
  /\ IF EndOk(inTx)
       THEN db' = RollbackState(db, snap) /\ inTx' = FALSE /\ snap' = NoDb
       ELSE UNCHANGED <<db, inTx, snap>>
  /\ Return(t, "error", 0, 0)
  /\ UNCHANGED <<nextId, ops, faults>>


\* =========================================================================
\* repositories/WalletRepository.js: transfer(fromId, toId, amount)
\* =========================================================================
\* transfer() called by itself, or by DatabaseService.executeTransfer
IsRepo(k) == k.kind \in {"repoTransfer", "executeTransfer"}

\* lines 240-246; BEGIN is issued inside the try, so its failure reaches the catch
CallRepoTransfer(t, fromId, toId, amount) ==
  LET req == ById(fromId, toId, amount) IN
  /\ CanStart(t)
  /\ ops' = ops + 1
  /\ IF amount <= 0
       THEN /\ Set(t, Idle)
            /\ last' = [NoLast EXCEPT !.kind = "repoTransfer", !.outcome = "invalid",
                                      !.src = FindById(db, fromId).id,
                                      !.dst = FindById(db, toId).id, !.amount = amount]
       ELSE /\ Set(t, [Idle EXCEPT !.kind = "repoTransfer", !.pc = "begin", !.req = req,
                                   !.src = FindById(db, fromId).id,
                                   !.dst = FindById(db, toId).id])
            /\ UNCHANGED last
  /\ UNCHANGED <<db, inTx, snap, nextId, faults>>

\* line 246
RepoBegin(t) ==
  /\ IsRepo(tasks[t]) /\ tasks[t].pc = "begin"
  /\ IF BeginOk(inTx)
       THEN /\ inTx' = TRUE /\ snap' = db
            /\ Set(t, [tasks[t] EXCEPT !.pc = "findFrom"])
       ELSE /\ Set(t, [tasks[t] EXCEPT !.pc = "catchRollback", !.outcome = "error"])
            /\ UNCHANGED <<inTx, snap>>
  /\ UNCHANGED <<db, nextId, last, ops, faults>>

\* lines 249-252
RepoFindFrom(t) ==
  LET k == tasks[t]
      fromWallet == FindById(db, k.req.fromWalletId)
  IN
  /\ IsRepo(k) /\ k.pc = "findFrom"
  /\ IF fromWallet = NoWallet
       THEN Set(t, [k EXCEPT !.pc = "catchRollback", !.outcome = "notfound"])
       ELSE Set(t, [k EXCEPT !.pc = "findTo", !.fromWallet = fromWallet])
  /\ UNCHANGED <<db, inTx, snap, nextId, last, ops, faults>>

\* lines 255-263
RepoFindTo(t) ==
  LET k == tasks[t]
      toWallet == FindById(db, k.req.toWalletId)
  IN
  /\ IsRepo(k) /\ k.pc = "findTo"
  /\ IF toWallet = NoWallet
       THEN Set(t, [k EXCEPT !.pc = "catchRollback", !.outcome = "notfound"])
     ELSE IF Insufficient(k.fromWallet.balance, k.req.amount)
       THEN Set(t, [k EXCEPT !.pc = "catchRollback", !.outcome = "insufficient"])
     ELSE Set(t, [k EXCEPT !.pc = "updFrom", !.toWallet = toWallet])
  /\ UNCHANGED <<db, inTx, snap, nextId, last, ops, faults>>

\* lines 266-267
RepoUpdate(t) ==
  LET k == tasks[t]
      sender == k.pc = "updFrom"
      id == IF sender THEN k.req.fromWalletId ELSE k.req.toWalletId
      newBalance == IF sender THEN NewFromBalance(k.fromWallet.balance, k.req.amount)
                              ELSE NewToBalance(k.toWallet.balance, k.req.amount)
  IN
  /\ IsRepo(k) /\ k.pc \in {"updFrom", "updTo"}
  /\ \/ /\ UpdateAccepted(db, id, newBalance)
        /\ db' = SetBalance(db, id, newBalance)
        /\ Set(t, [k EXCEPT !.pc = IF sender THEN "updTo" ELSE "commit"])
        /\ UNCHANGED faults
     \/ /\ ~UpdateAccepted(db, id, newBalance)
        /\ Set(t, [k EXCEPT !.pc = "catchRollback", !.outcome = "error"])
        /\ UNCHANGED <<db, faults>>
     \/ \* the UPDATE fails
        /\ faults < MaxFaults /\ faults' = faults + 1
        /\ Set(t, [k EXCEPT !.pc = "catchRollback", !.outcome = "error"])
        /\ UNCHANGED db
  /\ UNCHANGED <<inTx, snap, nextId, last, ops>>

\* lines 270-276
RepoCommit(t) ==
  /\ IsRepo(tasks[t]) /\ tasks[t].pc = "commit"
  /\ IF EndOk(inTx)
       THEN /\ inTx' = FALSE /\ snap' = NoDb
            /\ IF tasks[t].kind = "executeTransfer"
                 THEN /\ Set(t, [tasks[t] EXCEPT !.pc = "createTransfer"])
                      /\ UNCHANGED last
                 ELSE Return(t, "ok", 0, 0)
       ELSE /\ Set(t, [tasks[t] EXCEPT !.pc = "catchRollback", !.outcome = "error"])
            /\ UNCHANGED <<inTx, snap, last>>
  /\ UNCHANGED <<db, nextId, ops, faults>>

\* lines 277-281: rollback, then rethrow (the rollback's own error when it throws)
RepoCatchRollback(t) ==
  /\ IsRepo(tasks[t]) /\ tasks[t].pc = "catchRollback"
  /\ IF EndOk(inTx)
       THEN /\ db' = RollbackState(db, snap) /\ inTx' = FALSE /\ snap' = NoDb
            /\ Return(t, tasks[t].outcome, 0, 0)
       ELSE /\ UNCHANGED <<db, inTx, snap>>
            /\ Return(t, "error", 0, 0)
  /\ UNCHANGED <<nextId, ops, faults>>

\* =========================================================================
\* repositories/index.js: DatabaseService.executeTransfer
\* =========================================================================
\* line 34: this.wallets.transfer(fromWalletId, toWalletId, amount); what it
\* throws is rethrown at line 51
ExecuteTransfer(t, fromId, toId, amount) ==
  /\ CanStart(t)
  /\ ops' = ops + 1
  /\ IF amount <= 0
       THEN /\ Set(t, Idle)
            /\ last' = [NoLast EXCEPT !.kind = "executeTransfer", !.outcome = "invalid",
                                      !.src = FindById(db, fromId).id,
                                      !.dst = FindById(db, toId).id, !.amount = amount]
       ELSE /\ Set(t, [Idle EXCEPT !.kind = "executeTransfer", !.pc = "begin",
                                   !.req = ById(fromId, toId, amount),
                                   !.src = FindById(db, fromId).id,
                                   !.dst = FindById(db, toId).id])
            /\ UNCHANGED last
  /\ UNCHANGED <<db, inTx, snap, nextId, faults>>

\* lines 37-52: after transfer() has committed, createTransfer inserts the
\* movement; when it throws, the catch rethrows and nothing else is done
ExecuteCreateTransfer(t) ==
  LET k == tasks[t] IN
  /\ k.kind = "executeTransfer" /\ k.pc = "createTransfer"
  /\ \/ /\ CreateAccepted(k.req.amount, "transfer")
        /\ ForeignKeys(db, k.req.fromWalletId, k.req.toWalletId)
        /\ db' = AppendTx(db, Movement(k.req.fromWalletId, k.req.toWalletId, k.req.amount,
                                       "transfer", 0))
        /\ Return(t, "ok", 0, 0)
        /\ UNCHANGED faults
     \/ /\ ~(/\ CreateAccepted(k.req.amount, "transfer")
             /\ ForeignKeys(db, k.req.fromWalletId, k.req.toWalletId))
        /\ Return(t, "error", 0, 0)
        /\ UNCHANGED <<db, faults>>
     \/ \* the INSERT fails
        /\ faults < MaxFaults /\ faults' = faults + 1
        /\ Return(t, "error", 0, 0)
        /\ UNCHANGED db
  /\ UNCHANGED <<inTx, snap, nextId, ops>>

ExecuteStep(t) ==
  \/ RepoBegin(t)
  \/ RepoFindFrom(t)
  \/ RepoFindTo(t)
  \/ RepoUpdate(t)
  \/ RepoCommit(t)
  \/ RepoCatchRollback(t)
  \/ ExecuteCreateTransfer(t)

\* =========================================================================
\* routes/thirdPartyPayments.js
\* =========================================================================
ExtRequest(walletId, username, amount) ==
  [NoReq EXCEPT !.fromWalletId = walletId, !.fromUsername = username, !.amount = amount]

\* validateThirdPartyPayment / validateThirdPartyReceipt (the third party is named)
ValidateThirdParty(req) ==
  IF req.fromWalletId = NoRef /\ req.fromUsername = NoRef THEN "invalid"
  ELSE IF req.amount <= 0 THEN "invalid"
  ELSE IF ~TwoDecimals(req.amount) THEN "invalid"
  ELSE "next"

\* Math.round(x / y) for x >= 0
RoundDiv(x, y) == (2 * x + y) \div (2 * y)

\* feeAmount = Math.round(amount * 0.3 * 100) / 100
\* faulty variant: no fee is charged
FeeAmountZero(amount) == 0
FeeAmount(amount) == Cent * RoundDiv(amount * 3, 10 * Cent)
TotalAmountNoFee(amount) == amount
TotalAmount(amount) == amount + FeeAmount(amount)

IsExt(k) == k.kind \in {"payment", "receipt"}

\* POST /api/third-party/payments and POST /api/third-party/receipts
PostThirdParty(t, kind, req) ==
  LET wallet == ResolveFrom(db, req)
      src == IF kind = "payment" THEN wallet.id ELSE "none"
      dst == IF kind = "receipt" THEN wallet.id ELSE "none"
  IN
  /\ CanStart(t)
  /\ ops' = ops + 1
  /\ IF ValidateThirdParty(req) = "next"
       THEN /\ Set(t, [Idle EXCEPT !.kind = kind, !.pc = "begin", !.req = req,
                                   !.src = src, !.dst = dst])
            /\ UNCHANGED last
       ELSE /\ Set(t, Idle)
            /\ last' = [NoLast EXCEPT !.kind = kind, !.outcome = "invalid", !.src = src,
                                      !.dst = dst, !.amount = req.amount]
  /\ UNCHANGED <<db, inTx, snap, nextId, faults>>

\* await dbAsync.beginTransaction()
ExtBegin(t) ==
  /\ IsExt(tasks[t]) /\ tasks[t].pc = "begin"
  /\ IF BeginOk(inTx)
       THEN /\ inTx' = TRUE /\ snap' = db
            /\ Set(t, [tasks[t] EXCEPT !.pc = "find"])
            /\ UNCHANGED last
       ELSE /\ Return(t, "error", 0, 0)
            /\ UNCHANGED <<inTx, snap>>
  /\ UNCHANGED <<db, nextId, ops, faults>>

\* find the wallet; a payment checks the balance against amount + fee
ExtFind(t) ==
  LET k == tasks[t]
      wallet == ResolveFrom(db, k.req)
      early(outcome) == Set(t, [k EXCEPT !.pc = "earlyRollback", !.outcome = outcome])
  IN
  /\ IsExt(k) /\ k.pc = "find"
  /\ IF wallet = NoWallet THEN early("notfound")
     ELSE IF k.kind = "payment" /\ wallet.balance < TotalAmount(k.req.amount)
       THEN early("insufficient")
     ELSE Set(t, [k EXCEPT !.pc = "update", !.fromWallet = wallet,
                           !.req = [NoReq EXCEPT !.amount = k.req.amount]])
  /\ UNCHANGED <<db, inTx, snap, nextId, last, ops, faults>>

ExtEarlyRollback(t) ==
  /\ IsExt(tasks[t]) /\ tasks[t].pc = "earlyRollback"
  /\ IF EndOk(inTx)
       THEN /\ db' = RollbackState(db, snap) /\ inTx' = FALSE /\ snap' = NoDb
            /\ Return(t, tasks[t].outcome, 0, 0)
       ELSE /\ Set(t, [tasks[t] EXCEPT !.pc = "catchRollback"])
            /\ UNCHANGED <<db, inTx, snap, last>>
  /\ UNCHANGED <<nextId, ops, faults>>

\* walletRepo.updateBalance(wallet.id, newBalance)
ExtUpdate(t) ==
  LET k == tasks[t]
      newBalance == IF k.kind = "payment"
                      THEN k.fromWallet.balance - TotalAmount(k.req.amount)
                      ELSE k.fromWallet.balance + k.req.amount
  IN
  /\ IsExt(k) /\ k.pc = "update"
  /\ \/ /\ UpdateAccepted(db, k.fromWallet.id, newBalance)
        /\ db' = SetBalance(db, k.fromWallet.id, newBalance)
        /\ Set(t, [k EXCEPT !.pc = "insert"])
        /\ UNCHANGED faults
     \/ /\ ~UpdateAccepted(db, k.fromWallet.id, newBalance)
        /\ Set(t, [k EXCEPT !.pc = "catchRollback"])
        /\ UNCHANGED <<db, faults>>
     \/ \* the UPDATE fails
        /\ faults < MaxFaults /\ faults' = faults + 1
        /\ Set(t, [k EXCEPT !.pc = "catchRollback"])
        /\ UNCHANGED db
  /\ UNCHANGED <<inTx, snap, nextId, last, ops>>

\* transactionRepo.create: the payment records amount + fee
ExtInsert(t) ==
  LET k == tasks[t]
      m == IF k.kind = "payment"
             THEN Movement(k.fromWallet.id, NoRef, TotalAmount(k.req.amount),
                           "third_party_payment", 0)
             ELSE Movement(NoRef, k.fromWallet.id, k.req.amount, "third_party_receipt", 0)
  IN
  /\ IsExt(k) /\ k.pc = "insert"
  /\ \/ /\ ForeignKeys(db, m.from_wallet_id, m.to_wallet_id)
        /\ db' = AppendTx(db, m)
        /\ Set(t, [k EXCEPT !.pc = "commit"])
        /\ UNCHANGED faults
     \/ /\ ~ForeignKeys(db, m.from_wallet_id, m.to_wallet_id)
        /\ Set(t, [k EXCEPT !.pc = "catchRollback"])
        /\ UNCHANGED <<db, faults>>
     \/ \* the INSERT fails
        /\ faults < MaxFaults /\ faults' = faults + 1
        /\ Set(t, [k EXCEPT !.pc = "catchRollback"])
        /\ UNCHANGED db
  /\ UNCHANGED <<inTx, snap, nextId, last, ops>>

ExtCommit(t) ==
  /\ IsExt(tasks[t]) /\ tasks[t].pc = "commit"
  /\ IF EndOk(inTx)
       THEN /\ inTx' = FALSE /\ snap' = NoDb
            /\ Return(t, "ok", 0, 0)
       ELSE /\ Set(t, [tasks[t] EXCEPT !.pc = "catchRollback"])
            /\ UNCHANGED <<inTx, snap, last>>
  /\ UNCHANGED <<db, nextId, ops, faults>>

ExtCatchRollback(t) ==
  /\ IsExt(tasks[t]) /\ tasks[t].pc = "catchRollback"
  /\ IF EndOk(inTx)
       THEN db' = RollbackState(db, snap) /\ inTx' = FALSE /\ snap' = NoDb
       ELSE UNCHANGED <<db, inTx, snap>>
  /\ Return(t, "error", 0, 0)
  /\ UNCHANGED <<nextId, ops, faults>>

\* =========================================================================
\* routes/wallets.js
\* =========================================================================
\* GET /api/wallets/:walletId: one SELECT on the shared connection, no transaction
GetWallet(t, id) ==
  /\ CanStart(t)
  /\ ops' = ops + 1
  /\ last' = [NoLast EXCEPT !.kind = "read", !.src = id,
                            !.outcome = IF FindById(db, id) = NoWallet THEN "notfound" ELSE "ok",
                            !.amount = FindById(db, id).balance]
  /\ UNCHANGED <<db, inTx, snap, nextId, tasks, faults>>

\* PUT /api/wallets/:walletId/balance: the route checks amount < 0, then
\* walletRepo.updateBalance(walletId, amount) issues one UPDATE on the shared
\* connection (it joins a transaction another handler holds open) and reads
\* the row back for the response; no transaction is begun, no movement written
PutBalance(t, walletId, amount) ==
  /\ CanStart(t)
  /\ ops' = ops + 1
  /\ IF amount < 0 \/ ~BalanceAccepted(amount)
       THEN /\ last' = [NoLast EXCEPT !.kind = "put", !.src = walletId, !.outcome = "invalid"]
            /\ UNCHANGED db
     ELSE IF ~RowExists(db, walletId)
       THEN /\ last' = [NoLast EXCEPT !.kind = "put", !.src = walletId, !.outcome = "notfound"]
            /\ UNCHANGED db
     ELSE /\ db' = SetBalance(db, walletId, amount)
          /\ last' = [NoLast EXCEPT !.kind = "put", !.src = walletId, !.outcome = "ok",
                                    !.amount = amount]
  /\ UNCHANGED <<inTx, snap, nextId, tasks, faults>>

\* a JavaScript value passed as a balance: a number n, NaN or a string
Value(type, n) == [type |-> type, n |-> n]

\* typeof newBalance !== 'number' || newBalance < 0 (NaN is a number and is
\* not < 0)
IsNumberAny(value) == TRUE
IsNumber(value) == value.type \in {"number", "NaN"}

\* walletRepo.updateBalance(id, newBalance) called on its own: the check, then
\* one UPDATE (NaN is bound as NULL, which balance REAL NOT NULL refuses on a
\* row that exists; no row changed is 'Wallet does not exist')
UpdateBalance(t, id, value) ==
  LET outcome == IF ~IsNumber(value) THEN "invalid"
                 ELSE IF value.type = "number" /\ ~BalanceAccepted(value.n) THEN "invalid"
                 ELSE IF ~RowExists(db, id) THEN "notfound"
                 ELSE IF value.type = "NaN" THEN "error"
                 ELSE "ok"
  IN
  /\ CanStart(t)
  /\ ops' = ops + 1
  /\ db' = IF outcome = "ok" THEN SetBalance(db, id, value.n) ELSE db
  /\ last' = [kind |-> "updateBalance", outcome |-> outcome, src |-> id, dst |-> "none",
              amount |-> value.n, period |-> 0, processedCount |-> 0,
              totalInterest |-> 0, type |-> value.type, processedPeriods |-> <<>>]
  /\ UNCHANGED <<inTx, snap, nextId, tasks, faults>>

\* =========================================================================
\* routes/wallets.js POST /api/wallets, WalletRepository.create
\* =========================================================================
\* a username is a sequence of characters; Letters stands for [a-zA-Z]
Letters == {"a", "b"}
NameMin == 2
NameMax == 50

\* String.prototype.trim
RECURSIVE TrimStart(_)
TrimStart(s) == IF s # <<>> /\ Head(s) = " " THEN TrimStart(Tail(s)) ELSE s
RECURSIVE TrimEnd(_)
TrimEnd(s) == IF s # <<>> /\ s[Len(s)] = " " THEN TrimEnd(SubSeq(s, 1, Len(s) - 1)) ELSE s
Trim(s) == TrimEnd(TrimStart(s))

\* /^[a-zA-Z]+$/.test(s)
LettersOnly(s) == s # <<>> /\ \A i \in DOMAIN s : s[i] \in Letters

\* balance !== undefined && balance !== 0 is false
ZeroOrUndefined(value) ==
  value.type = "undefined" \/ (value.type = "number" /\ value.n = 0)

\* SELECT * FROM wallets WHERE username = ?
CreatedByUsername(d, name) == {r \in d.created : r.username = name}

\* a creation task returns
CreateReturns(t, outcome) ==
  /\ Set(t, Idle)
  /\ last' = [NoLast EXCEPT !.kind = "createWallet", !.outcome = outcome]

\* POST /api/wallets: validateCreateWallet, then the handler up to its first
\* await
PostWallet(t, username, initialBalance) ==
  LET valid == /\ username # <<>>
               /\ Len(Trim(username)) >= NameMin /\ Len(Trim(username)) <= NameMax
               /\ LettersOnly(Trim(username))
               /\ ZeroOrUndefined(initialBalance)
  IN
  /\ CanStart(t)
  /\ ops' = ops + 1
  /\ IF valid
       THEN /\ Set(t, [Idle EXCEPT !.kind = "createWallet", !.pc = "findByUsername",
                                   !.username = username,
                                   !.initial = IF initialBalance.type = "undefined"
                                                 THEN [type |-> "number", n |-> 0]
                                                 ELSE initialBalance])
            /\ UNCHANGED last
       ELSE CreateReturns(t, "invalid")
  /\ UNCHANGED <<db, inTx, snap, nextId, faults>>

\* lines 62-69: walletRepo.findByUsername(username.trim()), 409 when found;
\* else walletRepo.create is called with the trimmed username
CreateFind(t) ==
  LET k == tasks[t] IN
  /\ k.kind = "createWallet" /\ k.pc = "findByUsername"
  /\ IF CreatedByUsername(db, Trim(k.username)) # {}
       THEN CreateReturns(t, "conflict")
       ELSE Set(t, [k EXCEPT !.pc = "create", !.username = Trim(k.username)])
            /\ UNCHANGED last
  /\ UNCHANGED <<db, inTx, snap, nextId, ops, faults>>

\* walletRepo.create(walletData) called on its own
CallCreate(t, username, balance) ==
  /\ CanStart(t)
  /\ ops' = ops + 1
  /\ Set(t, [Idle EXCEPT !.kind = "createWallet", !.pc = "create",
                         !.username = username, !.initial = balance])
  /\ UNCHANGED <<db, inTx, snap, nextId, last, faults>>

\* WalletRepository.create, lines 17-40: the pattern is tested on the trimmed
\* username, the INSERT binds the username as passed; username TEXT UNIQUE
WalletCreate(t) ==
  LET k == tasks[t]
      actualBalance == IF k.initial.type = "undefined" THEN 0 ELSE k.initial.n
      row == [id |-> nextId, username |-> k.username, balance |-> actualBalance]
  IN
  /\ k.kind = "createWallet" /\ k.pc = "create"
  /\ IF ~LettersOnly(Trim(k.username)) \/ ~ZeroOrUndefined(k.initial)
       THEN CreateReturns(t, "invalid") /\ UNCHANGED <<db, nextId, faults>>
     ELSE IF CreatedByUsername(db, k.username) # {}
       THEN CreateReturns(t, "conflict") /\ UNCHANGED <<db, nextId, faults>>
     ELSE \/ /\ db' = [db EXCEPT !.created = @ \cup {row}]
             /\ nextId' = nextId + 1
             /\ Set(t, [k EXCEPT !.pc = "findById"])
             /\ UNCHANGED <<last, faults>>
          \/ \* the INSERT fails
             /\ faults < MaxFaults /\ faults' = faults + 1
             /\ CreateReturns(t, "error")
             /\ UNCHANGED <<db, nextId>>
  /\ UNCHANGED <<inTx, snap, ops>>

\* line 42: return await this.findById(id)
CreateFindById(t) ==
  /\ tasks[t].kind = "createWallet" /\ tasks[t].pc = "findById"
  /\ CreateReturns(t, "ok")
  /\ UNCHANGED <<db, inTx, snap, nextId, ops, faults>>

CreateStep(t) == CreateFind(t) \/ WalletCreate(t) \/ CreateFindById(t)


\* =========================================================================
\* WalletRepository.delete
\* =========================================================================
\* walletRepo.delete(id) is called
CallDelete(t, id) ==
  /\ CanStart(t)
  /\ ops' = ops + 1
  /\ Set(t, [Idle EXCEPT !.kind = "delete", !.pc = "count", !.src = id])
  /\ UNCHANGED <<db, inTx, snap, nextId, last, faults>>

\* lines 182-189: SELECT COUNT(*) of the rows of transactions naming the wallet
DeleteCount(t) ==
  LET k == tasks[t] IN
  /\ k.kind = "delete" /\ k.pc = "count"
  /\ IF Referenced(db, k.src)
       THEN Return(t, "referenced", 0, 0)
       ELSE Set(t, [k EXCEPT !.pc = "delete"]) /\ UNCHANGED last
  /\ UNCHANGED <<db, inTx, snap, nextId, ops, faults>>

\* lines 191-196: DELETE FROM wallets WHERE id = ?; the foreign keys of
\* transactions refuse it while a row names the wallet
DeleteWallet(t) ==
  LET k == tasks[t] IN
  /\ k.kind = "delete" /\ k.pc = "delete"
  /\ \/ /\ ~RowExists(db, k.src)
        /\ Return(t, "notfound", 0, 0)
        /\ UNCHANGED <<db, faults>>
     \/ /\ RowExists(db, k.src) /\ ForeignKeysOn /\ Referenced(db, k.src)
        /\ Return(t, "constraint", 0, 0)
        /\ UNCHANGED <<db, faults>>
     \/ /\ RowExists(db, k.src) /\ ~(ForeignKeysOn /\ Referenced(db, k.src))
        /\ db' = [db EXCEPT !.deleted = @ \cup {k.src}]
        /\ Return(t, "ok", 0, 0)
        /\ UNCHANGED faults
     \/ \* the DELETE fails
        /\ faults < MaxFaults /\ faults' = faults + 1
        /\ Return(t, "error", 0, 0)
        /\ UNCHANGED db
  /\ UNCHANGED <<inTx, snap, nextId, ops>>

DeleteStep(t) == DeleteCount(t) \/ DeleteWallet(t)

\* =========================================================================
\* services/InterestService.js
\* =========================================================================
\* setMonthlyInterestRate(rate): any number is accepted
SetMonthlyInterestRate(newRate) ==
  /\ rate' = newRate
  /\ ops' = ops + 1
  /\ UNCHANGED <<db, inTx, snap, nextId, tasks, last, pre, faults, cdks, sched>>

\* calculateInterest: balance * monthlyInterestRate, at the storage resolution
Trunc(n, d) == IF n >= 0 THEN n \div d ELSE -((-n) \div d)
CalculateInterest(balance) == Trunc(balance * rate, RateDen)

Abs(n) == IF n >= 0 THEN n ELSE -n

\* line 243: only wallets whose interest is not zero are touched
HasInterestAlways(wallet) == TRUE
HasInterest(wallet) == Abs(CalculateInterest(wallet.balance)) > 0

\* getInterestLogByPeriod: the first row of the period, NoLog when there is none
GetInterestLogByPeriod(d, period) ==
  LET rows == {r \in d.logs : r.period = period} IN
  IF rows = {} THEN NoLog
  ELSE CHOOSE r \in rows : \A q \in rows : r.id <= q.id

\* createInterestLog
CreateInterestLog(d, id, period) ==
  [d EXCEPT !.logs = @ \cup {[NoLog EXCEPT !.id = id, !.period = period,
                                           !.status = "PENDING"]}]

\* updateInterestLog: UPDATE interest_logs SET <the fields of updates> WHERE id = ?
UpdateInterestLog(d, id, updates) ==
  LET Updated(r) == [f \in DOMAIN r |-> IF f \in DOMAIN updates THEN updates[f] ELSE r[f]]
  IN [d EXCEPT !.logs = {IF r.id = id THEN Updated(r) ELSE r : r \in @}]

RECURSIVE PeriodsDescending(_)
\* faulty variant: newest first
PeriodsDescending(rows) ==
  IF rows = {} THEN <<>>
  ELSE LET r == CHOOSE x \in rows :
                  \A y \in rows : x.period > y.period \/ (x.period = y.period /\ x.id >= y.id)
       IN <<r.period>> \o PeriodsDescending(rows \ {r})

\* getPendingInterestPeriods: WHERE status IN ('PENDING','FAILED') ORDER BY period ASC
RECURSIVE PeriodsAscending(_)
PeriodsAscending(rows) ==
  IF rows = {} THEN <<>>
  ELSE LET r == CHOOSE x \in rows :
                  \A y \in rows : x.period < y.period \/ (x.period = y.period /\ x.id <= y.id)
       IN <<r.period>> \o PeriodsAscending(rows \ {r})

\* faulty variant: FAILED rows are not retried
RetryableOnlyPending == {"PENDING"}
Retryable == {"PENDING", "FAILED"}

GetPendingInterestPeriods(d) ==
  PeriodsAscending({r \in d.logs : r.status \in Retryable})

\* lines 187-196: the idempotent short-circuit
\* faulty variant: the short-circuit left out
AlreadyCompletedNever(log) == FALSE
AlreadyCompleted(log) == log # NoLog /\ log.status = "COMPLETED"

IsRun(k) == k.kind \in {"interest", "sweep"}

\* index of the first wallet at or after i that has interest, Len + 1 if none
RECURSIVE NextWithInterest(_, _)
NextWithInterest(wallets, i) ==
  IF i > Len(wallets) THEN i
  ELSE IF HasInterest(wallets[i]) THEN i
  ELSE NextWithInterest(wallets, i + 1)

\* processMonthlyInterest(period) is entered by task record k
EnterRun(k, period) ==
  [k EXCEPT !.pc = "getLog", !.period = period, !.logId = 0, !.wallets = <<>>, !.i = 0,
            !.totalInterest = 0, !.processedCount = 0]

\* lines 334 and 355-363 of the sweep: allSuccess stays true while every run
\* succeeds
\* faulty variant: the result of the last run only
AllSuccessLast(allOk, success) == success
AllSuccess(allOk, success) == allOk /\ success

\* processMonthlyInterest returns {success, processedCount, totalInterest}:
\* to the route or the monthly job, or to the loop of the sweep (lines 336-367)
RunReturns(t, success, processedCount, totalInterest) ==
  LET k == tasks[t]
      allOk == AllSuccess(k.allOk, success)
      entries == Append(k.processedPeriods, [period |-> k.period, success |-> success])
  IN
  IF k.kind = "interest"
    THEN Return(t, IF success THEN "ok" ELSE "failed", processedCount, totalInterest)
  ELSE IF Len(k.pending) > 1
    THEN /\ Set(t, [EnterRun(k, k.pending[2]) EXCEPT !.pending = Tail(k.pending),
                                                     !.allOk = allOk,
                                                     !.processedPeriods = entries])
         /\ UNCHANGED last
  ELSE /\ Set(t, Idle)
       /\ last' = [NoLast EXCEPT !.kind = k.kind, !.outcome = IF allOk THEN "ok" ELSE "failed",
                                 !.period = k.period, !.processedPeriods = entries]

\* POST /api/interests/process, the monthly job, executeForPeriod
StartInterest(t, period) ==
  /\ CanStart(t)
  /\ ops' = ops + 1
  /\ Set(t, EnterRun([Idle EXCEPT !.kind = "interest"], period))
  /\ UNCHANGED <<db, inTx, snap, nextId, last, faults>>

\* checkAnd补发Interest is entered: lines 318-331
SweepCall(t) ==
  LET pendingPeriods == GetPendingInterestPeriods(db)
      k == [Idle EXCEPT !.kind = "sweep", !.pending = pendingPeriods]
  IN
  /\ CanStart(t)
  /\ IF pendingPeriods = <<>>
       THEN /\ Set(t, Idle)
            /\ last' = [NoLast EXCEPT !.kind = "sweep", !.outcome = "ok"]
       ELSE /\ Set(t, EnterRun(k, pendingPeriods[1]))
            /\ UNCHANGED last
  /\ UNCHANGED <<db, inTx, snap, nextId, faults>>

\* the daily job, checkMissingInterest
StartSweep(t) == SweepCall(t) /\ ops' = ops + 1

\* The process is terminated and started again: handlers in flight are gone,
\* SQLite discards the open transaction, the service is constructed anew.
Crash ==
  /\ db' = Committed
  /\ inTx' = FALSE
  /\ snap' = NoDb
  /\ tasks' = [t \in Tasks |-> Idle]
  /\ last' = NoLast
  /\ rate' = RateNum
  /\ cdks' = [cdks EXCEPT !.mem = cdks.file]
  /\ sched' = NoSched
  /\ ops' = ops + 1
  /\ UNCHANGED <<nextId, pre, faults>>

\* lines 186-204
RunGetLog(t) ==
  LET k == tasks[t]
      existingLog == GetInterestLogByPeriod(db, k.period)
  IN
  /\ IsRun(k) /\ k.pc = "getLog"
  /\ IF AlreadyCompleted(existingLog)
       THEN RunReturns(t, TRUE, existingLog.processed_count, existingLog.total_interest)
     ELSE IF existingLog # NoLog
       THEN Set(t, [k EXCEPT !.pc = "setProcessing", !.logId = existingLog.id])
            /\ UNCHANGED last
     ELSE Set(t, [k EXCEPT !.pc = "createLog"]) /\ UNCHANGED last
  /\ UNCHANGED <<db, inTx, snap, nextId, ops, faults>>

\* line 203
RunCreateLog(t) ==
  LET k == tasks[t] IN
  /\ IsRun(k) /\ k.pc = "createLog"
  /\ db' = CreateInterestLog(db, nextId, k.period)
  /\ nextId' = nextId + 1
  /\ Set(t, [k EXCEPT !.pc = "setProcessing", !.logId = nextId])
  /\ UNCHANGED <<inTx, snap, last, ops, faults>>

\* line 207
MarkProcessing == [status |-> "PROCESSING"]
RunSetProcessing(t) ==
  LET k == tasks[t] IN
  /\ IsRun(k) /\ k.pc = "setProcessing"
  /\ db' = UpdateInterestLog(db, k.logId, MarkProcessing)
  /\ Set(t, [k EXCEPT !.pc = "begin"])
  /\ UNCHANGED <<inTx, snap, nextId, last, ops, faults>>

\* line 211; a failure goes to the outer catch (lines 303-311)
RunBegin(t) ==
  LET k == tasks[t] IN
  /\ IsRun(k) /\ k.pc = "begin"
  /\ IF BeginOk(inTx)
       THEN /\ inTx' = TRUE /\ snap' = db
            /\ Set(t, [k EXCEPT !.pc = "findAll"])
            /\ UNCHANGED last
       ELSE /\ RunReturns(t, FALSE, 0, 0)
            /\ UNCHANGED <<inTx, snap>>
  /\ UNCHANGED <<db, nextId, ops, faults>>

\* line 215
RunFindAll(t) ==
  LET k == tasks[t] IN
  /\ IsRun(k) /\ k.pc = "findAll"
  /\ Set(t, [k EXCEPT !.pc = "totalWallets", !.wallets = FindAll(db)])
  /\ UNCHANGED <<db, inTx, snap, nextId, last, ops, faults>>

\* lines 218-243
RunTotalWallets(t) ==
  LET k == tasks[t]
      MarkTotal == [total_wallets |-> Len(k.wallets)]
      first == NextWithInterest(k.wallets, 1)
  IN
  /\ IsRun(k) /\ k.pc = "totalWallets"
  /\ db' = UpdateInterestLog(db, k.logId, MarkTotal)
  /\ Set(t, [k EXCEPT !.pc = IF first > Len(k.wallets) THEN "commit" ELSE "update",
                      !.i = first])
  /\ UNCHANGED <<inTx, snap, nextId, last, ops, faults>>

\* lines 244-247: walletRepo.updateBalance(wallet.id, newBalance)
RunUpdate(t) ==
  LET k == tasks[t]
      wallet == k.wallets[k.i]
      newBalance == wallet.balance + CalculateInterest(wallet.balance)
  IN
  /\ IsRun(k) /\ k.pc = "update"
  /\ \/ /\ UpdateAccepted(db, wallet.id, newBalance)
        /\ db' = SetBalance(db, wallet.id, newBalance)
        /\ Set(t, [k EXCEPT !.pc = "insert"])
        /\ UNCHANGED faults
     \/ /\ ~UpdateAccepted(db, wallet.id, newBalance)
        /\ Set(t, [k EXCEPT !.pc = "rollback"])
        /\ UNCHANGED <<db, faults>>
     \/ \* the UPDATE fails
        /\ faults < MaxFaults /\ faults' = faults + 1
        /\ Set(t, [k EXCEPT !.pc = "rollback"])
        /\ UNCHANGED db
  /\ UNCHANGED <<inTx, snap, nextId, last, ops>>

\* lines 249-270: createInterestCredit / createInterestDebit, then the counters
RunInsert(t) ==
  LET k == tasks[t]
      wallet == k.wallets[k.i]
      interest == CalculateInterest(wallet.balance)
      type == IF interest > 0 THEN "interest_credit" ELSE "interest_debit"
      next == NextWithInterest(k.wallets, k.i + 1)
  IN
  /\ IsRun(k) /\ k.pc = "insert"
  /\ \/ /\ ~ForeignKeys(db, NoRef, wallet.id)
        /\ Set(t, [k EXCEPT !.pc = "rollback"])
        /\ UNCHANGED <<db, faults>>
     \/ /\ ForeignKeys(db, NoRef, wallet.id)
        /\ db' = AppendTx(db, Movement(NoRef, wallet.id, Abs(interest), type, k.period))
        /\ Set(t, [k EXCEPT !.pc = IF next > Len(k.wallets) THEN "commit" ELSE "update",
                            !.i = next,
                            !.totalInterest = @ + interest,
                            !.processedCount = @ + 1])
        /\ UNCHANGED faults
     \/ \* the INSERT fails
        /\ faults < MaxFaults /\ faults' = faults + 1
        /\ Set(t, [k EXCEPT !.pc = "rollback"])
        /\ UNCHANGED db
  /\ UNCHANGED <<inTx, snap, nextId, last, ops>>

\* line 274
RunCommit(t) ==
  LET k == tasks[t] IN
  /\ IsRun(k) /\ k.pc = "commit"
  /\ IF EndOk(inTx)
       THEN /\ inTx' = FALSE /\ snap' = NoDb
            /\ Set(t, [k EXCEPT !.pc = "setCompleted"])
       ELSE /\ Set(t, [k EXCEPT !.pc = "rollback"])
            /\ UNCHANGED <<inTx, snap>>
  /\ UNCHANGED <<db, nextId, last, ops, faults>>

\* lines 277-291
RunSetCompleted(t) ==
  LET k == tasks[t]
      MarkCompleted == [status |-> "COMPLETED",
                        processed_count |-> k.processedCount,
                        total_interest |-> k.totalInterest]
  IN
  /\ IsRun(k) /\ k.pc = "setCompleted"
  /\ db' = UpdateInterestLog(db, k.logId, MarkCompleted)
  /\ RunReturns(t, TRUE, k.processedCount, k.totalInterest)
  /\ UNCHANGED <<inTx, snap, nextId, ops, faults>>

\* line 295; when the rollback itself throws, the outer catch returns the failure
RunRollback(t) ==
  LET k == tasks[t] IN
  /\ IsRun(k) /\ k.pc = "rollback"
  /\ IF EndOk(inTx)
       THEN /\ db' = RollbackState(db, snap) /\ inTx' = FALSE /\ snap' = NoDb
            /\ Set(t, [k EXCEPT !.pc = "setFailed"])
            /\ UNCHANGED last
       ELSE /\ RunReturns(t, FALSE, 0, 0)
            /\ UNCHANGED <<db, inTx, snap>>
  /\ UNCHANGED <<nextId, ops, faults>>

\* lines 297-310
MarkFailed == [status |-> "FAILED", error_message |-> "error"]
RunSetFailed(t) ==
  LET k == tasks[t] IN
  /\ IsRun(k) /\ k.pc = "setFailed"
  /\ db' = UpdateInterestLog(db, k.logId, MarkFailed)
  /\ RunReturns(t, FALSE, 0, 0)
  /\ UNCHANGED <<inTx, snap, nextId, ops, faults>>

\* =========================================================================
\* services/CdkService.js, routes/cdks.js
\* =========================================================================
\* validateCdkFormat: six groups of four letters or digits
ValidateCdkFormat(code) == code # "bad"

\* the CHECK constraint of transactions.transaction_type
SchemaTypes == {"transfer", "initial_deposit", "interest_credit", "interest_debit",
                "third_party_payment", "third_party_receipt"}

\* POST /api/cdks/redeem: the route's check, then redeemCdk up to its first
\* await: validateCdkFormat, findCdkByKey, validateCdk
PostRedeem(t, code, username) ==
  LET reject(outcome) ==
        /\ Set(t, Idle)
        /\ last' = [NoLast EXCEPT !.kind = "redeem", !.outcome = outcome]
  IN
  /\ CanStart(t)
  /\ ops' = ops + 1
  /\ IF code = NoRef \/ username = NoRef THEN reject("invalid")
     ELSE IF ~ValidateCdkFormat(code) THEN reject("invalid")
     ELSE IF code \notin CdkKeys THEN reject("notfound")
     ELSE IF cdks.mem[code] # "ACTIVE" THEN reject("used")
     ELSE /\ Set(t, [Idle EXCEPT !.kind = "redeem", !.pc = "findWallet", !.code = code,
                                 !.req = [NoReq EXCEPT !.fromUsername = username,
                                                       !.amount = CdkAmount(code)]])
          /\ UNCHANGED last
  /\ UNCHANGED <<db, inTx, snap, nextId, faults, cdks, sched>>

\* lines 112-115: walletRepo.findByUsername(username), before the transaction
RedeemFind(t) ==
  LET k == tasks[t]
      wallet == FindByUsername(db, k.req.fromUsername)
  IN
  /\ k.kind = "redeem" /\ k.pc = "findWallet"
  /\ IF wallet = NoWallet
       THEN Return(t, "notfound", 0, 0)
       ELSE /\ Set(t, [k EXCEPT !.pc = "begin", !.fromWallet = wallet, !.dst = wallet.id])
            /\ UNCHANGED last
  /\ UNCHANGED <<db, inTx, snap, nextId, ops, faults, cdks, sched>>

\* line 118: BEGIN TRANSACTION, outside the inner try
RedeemBegin(t) ==
  /\ tasks[t].kind = "redeem" /\ tasks[t].pc = "begin"
  /\ IF BeginOk(inTx)
       THEN /\ inTx' = TRUE /\ snap' = db
            /\ Set(t, [tasks[t] EXCEPT !.pc = "update"])
            /\ UNCHANGED last
       ELSE /\ Return(t, "error", 0, 0)
            /\ UNCHANGED <<inTx, snap>>
  /\ UNCHANGED <<db, nextId, ops, faults, cdks, sched>>

\* lines 122-124: the balance read before BEGIN plus cdk.amount
RedeemUpdate(t) ==
  LET k == tasks[t]
      newBalance == k.fromWallet.balance + k.req.amount
  IN
  /\ k.kind = "redeem" /\ k.pc = "update"
  /\ \/ /\ UpdateAccepted(db, k.fromWallet.id, newBalance)
        /\ db' = SetBalance(db, k.fromWallet.id, newBalance)
        /\ Set(t, [k EXCEPT !.pc = "insert"])
        /\ UNCHANGED faults
     \/ /\ ~UpdateAccepted(db, k.fromWallet.id, newBalance)
        /\ Set(t, [k EXCEPT !.pc = "rollback"])
        /\ UNCHANGED <<db, faults>>
     \/ \* the UPDATE fails
        /\ faults < MaxFaults /\ faults' = faults + 1
        /\ Set(t, [k EXCEPT !.pc = "rollback"])
        /\ UNCHANGED db
  /\ UNCHANGED <<inTx, snap, nextId, last, ops, cdks, sched>>

\* lines 127-134: transactionRepo.create with transactionType 'system'
RedeemInsert(t) ==
  LET k == tasks[t]
      accepted == /\ CreateAccepted(k.req.amount, "system") /\ "system" \in SchemaTypes
                  /\ ForeignKeys(db, NoRef, k.fromWallet.id)
  IN
  /\ k.kind = "redeem" /\ k.pc = "insert"
  /\ IF accepted
       THEN /\ db' = AppendTx(db, Movement(NoRef, k.fromWallet.id, k.req.amount, "system", 0))
            /\ Set(t, [k EXCEPT !.pc = "save"])
       ELSE /\ Set(t, [k EXCEPT !.pc = "rollback"])
            /\ UNCHANGED db
  /\ UNCHANGED <<inTx, snap, nextId, last, ops, faults, cdks, sched>>

\* lines 137-140: cdk.status = 'USED' in memory, then saveCdks writes the file
RedeemSave(t) ==
  LET k == tasks[t]
      used == [cdks.mem EXCEPT ![k.code] = "USED"]
  IN
  /\ k.kind = "redeem" /\ k.pc = "save"
  /\ \/ /\ cdks' = [mem |-> used, file |-> used]
        /\ Set(t, [k EXCEPT !.pc = "commit"])
        /\ UNCHANGED faults
     \/ \* fs.writeFile fails
        /\ faults < MaxFaults /\ faults' = faults + 1
        /\ cdks' = [cdks EXCEPT !.mem = used]
        /\ Set(t, [k EXCEPT !.pc = "rollback"])
  /\ UNCHANGED <<db, inTx, snap, nextId, last, ops, sched>>

\* line 143: COMMIT
RedeemCommit(t) ==
  /\ tasks[t].kind = "redeem" /\ tasks[t].pc = "commit"
  /\ IF EndOk(inTx)
       THEN /\ inTx' = FALSE /\ snap' = NoDb
            /\ Return(t, "ok", 0, 0)
       ELSE /\ Set(t, [tasks[t] EXCEPT !.pc = "rollback"])
            /\ UNCHANGED <<inTx, snap, last>>
  /\ UNCHANGED <<db, nextId, ops, faults, cdks, sched>>

\* lines 151-155: ROLLBACK, then the error is thrown on
RedeemRollback(t) ==
  /\ tasks[t].kind = "redeem" /\ tasks[t].pc = "rollback"
  /\ IF EndOk(inTx)
       THEN db' = RollbackState(db, snap) /\ inTx' = FALSE /\ snap' = NoDb
       ELSE UNCHANGED <<db, inTx, snap>>
  /\ Return(t, "error", 0, 0)
  /\ UNCHANGED <<nextId, ops, faults, cdks, sched>>

\* the statements of redeemCdk
RedeemStep(t) ==
  \/ RedeemFind(t)
  \/ RedeemBegin(t)
  \/ RedeemUpdate(t)
  \/ RedeemInsert(t)
  \/ RedeemSave(t)
  \/ RedeemCommit(t)
  \/ RedeemRollback(t)

\* =========================================================================
\* specifications
\* =========================================================================
RefIds == {NoRef, "w1", "w2", "wX"}
RefNames == {NoRef, "alice", "bob", "carol"}
Amounts == {0, Cent, Cent + 1, 3 * Cent}
Balances == {0, Cent, 3 * Cent}

ConcurrentThirdParty == {<<"payment", ExtRequest("w1", NoRef, Cent)>>,
                         <<"receipt", ExtRequest("w2", NoRef, Cent)>>}

Requests == [fromWalletId : RefIds, toWalletId : RefIds, fromUsername : RefNames,
             toUsername : RefNames, amount : Amounts]

\* requests of concurrent clients: by id, between the two wallets
ConcurrentRequests == {ById("w1", "w2", Cent), ById("w1", "w2", 3 * Stake),
                       ById("w2", "w1", Cent)}

\* wallets are created with balance 0 and funded by third-party receipts
RECURSIVE Funding(_, _)
Funding(b, ids) ==
  IF ids = {} THEN <<>>
  ELSE LET id == CHOOSE x \in ids : TRUE
           rest == Funding(b, ids \ {id})
       IN IF b[id] > 0
            THEN <<Movement(NoRef, id, b[id], "third_party_receipt", 0)>> \o rest
            ELSE rest

Funded(b) == [bal |-> b, txs |-> Funding(b, WalletIds), logs |-> {}, created |-> {}, deleted |-> {}]

InitRest ==
  /\ inTx = FALSE
  /\ snap = NoDb
  /\ nextId = 1
  /\ tasks = [t \in Tasks |-> Idle]
  /\ last = NoLast
  /\ pre = NoDb
  /\ cdks = LoadedCdks
  /\ sched = NoSched
  /\ ops = 0
  /\ faults = 0

\* the service as constructed: monthlyInterestRate = 0.01 / 12
DefaultRate == rate = RateNum

Init == db = Funded([w \in WalletIds |-> InitBalance(w)]) /\ InitRest /\ DefaultRate

Step(t) ==
  \/ TransferBegin(t)
  \/ TransferFindFrom(t)
  \/ TransferFindTo(t)
  \/ TransferEarlyRollback(t)
  \/ TransferUpdate(t)
  \/ TransferInsert(t)
  \/ TransferCommit(t)
  \/ TransferCatchRollback(t)
  \/ RunGetLog(t)
  \/ RunCreateLog(t)
  \/ RunSetProcessing(t)
  \/ RunBegin(t)
  \/ RunFindAll(t)
  \/ RunTotalWallets(t)
  \/ RunUpdate(t)
  \/ RunInsert(t)
  \/ RunCommit(t)
  \/ RunSetCompleted(t)
  \/ RunRollback(t)
  \/ RunSetFailed(t)
  \/ ExtBegin(t)
  \/ ExtFind(t)
  \/ ExtEarlyRollback(t)
  \/ ExtUpdate(t)
  \/ ExtInsert(t)
  \/ ExtCommit(t)
  \/ ExtCatchRollback(t)

\* handlers interleave at every await
Next ==
  /\ \E t \in Tasks :
       \/ /\ ops < MaxOps
          /\ \/ \E req \in ConcurrentRequests : PostTransfer(t, req)
             \/ \E req \in ConcurrentThirdParty : PostThirdParty(t, req[1], req[2])
             \/ \E id \in WalletIds : GetWallet(t, id)
             \/ \E p \in Periods : StartInterest(t, p)
             \/ StartSweep(t)
       \/ Step(t)
  /\ UNCHANGED <<pre, rate, cdks, sched>>

Spec == Init /\ [][Next]_vars

\* one handler at a time, each run to its end before the next is called
NextSeq ==
  \E t \in Tasks :
    /\ Solo(t)
    /\ UNCHANGED <<rate, cdks, sched>>
    /\ \/ /\ ops < MaxSeqOps
          /\ pre' = db
          /\ \/ \E req \in ConcurrentRequests : PostTransfer(t, req)
             \/ \E req \in ConcurrentThirdParty : PostThirdParty(t, req[1], req[2])
             \/ \E p \in Periods : StartInterest(t, p)
             \/ StartSweep(t)
       \/ Step(t) /\ UNCHANGED pre

SpecSeq == Init /\ [][NextSeq]_vars

\* the statements of a settlement run
RunStep(t) ==
  \/ RunGetLog(t)
  \/ RunCreateLog(t)
  \/ RunSetProcessing(t)
  \/ RunBegin(t)
  \/ RunFindAll(t)
  \/ RunTotalWallets(t)
  \/ RunUpdate(t)
  \/ RunInsert(t)
  \/ RunCommit(t)
  \/ RunSetCompleted(t)
  \/ RunRollback(t)
  \/ RunSetFailed(t)

\* the sweep fired by the daily job and by start(): it is not a request
DailySweep(t) == Solo(t) /\ SweepCall(t) /\ UNCHANGED <<ops, pre, rate, cdks, sched>>

RunProgress(t) == Solo(t) /\ RunStep(t) /\ UNCHANGED <<pre, rate, cdks, sched>>

\* settlement runs, process restarts and the recurring sweep
NextCrash ==
  \/ \E t \in Tasks :
        \/ /\ Solo(t)
           /\ ops < MaxOps
           /\ \E p \in Periods : StartInterest(t, p)
           /\ UNCHANGED <<pre, rate, cdks, sched>>
        \/ DailySweep(t)
        \/ RunProgress(t)
  \/ /\ ops < MaxOps
     /\ Crash

\* the scheduler keeps firing the sweep and a started run keeps executing
SpecCrash ==
  /\ Init
  /\ [][NextCrash]_vars
  /\ \A t \in Tasks : WF_vars(DailySweep(t)) /\ WF_vars(RunProgress(t))

\* rates a deployment can configure: the default, -50% and -150% a month
Rates == {RateNum, -(RateDen \div 2), -((3 * RateDen) \div 2)}
PutAmounts == {-Cent, 0, 3 * Cent}
PutIds == {"w1", "w2", "wX"}

\* every handler that writes a balance, interleaved at every await, with the
\* balance update of routes/wallets.js and a configurable rate
NextLedger ==
  \/ /\ \E t \in Tasks :
          \/ /\ ops < MaxOps
             /\ \/ \E req \in ConcurrentRequests : PostTransfer(t, req)
                \/ \E req \in ConcurrentThirdParty : PostThirdParty(t, req[1], req[2])
                \/ \E id \in PutIds : \E amount \in PutAmounts : PutBalance(t, id, amount)
                \/ \E p \in Periods : StartInterest(t, p)
          \/ Step(t)
     /\ UNCHANGED <<pre, rate, cdks, sched>>
  \/ /\ ops < MaxOps
     /\ \E r \in Rates : SetMonthlyInterestRate(r)

SpecLedger == Init /\ [][NextLedger]_vars

\* one transfer request, any request, on any funding of the two wallets
InitTransfer ==
  db \in {Funded(b) : b \in [WalletIds -> Balances]} /\ InitRest /\ DefaultRate

NextTransfer ==
  \/ /\ ops = 0
     /\ pre' = db
     /\ UNCHANGED <<rate, cdks, sched>>
     /\ \/ \E req \in Requests : PostTransfer(1, req)
        \/ \E f \in RefNames, g \in RefNames, a \in Amounts : PostByUsername(1, f, g, a)
        \/ \E req \in Requests : CallExecuteTransfer(1, req)
        \/ \E f \in RefIds \ {NoRef}, g \in RefIds \ {NoRef}, a \in Amounts :
              CallRepoTransfer(1, f, g, a)
  \/ /\ UNCHANGED <<pre, rate, cdks, sched>>
     /\ \/ TransferBegin(1)
        \/ TransferFindFrom(1)
        \/ TransferFindTo(1)
        \/ TransferEarlyRollback(1)
        \/ TransferUpdate(1)
        \/ TransferInsert(1)
        \/ TransferCommit(1)
        \/ TransferCatchRollback(1)
        \/ RepoBegin(1)
        \/ RepoFindFrom(1)
        \/ RepoFindTo(1)
        \/ RepoUpdate(1)
        \/ RepoCommit(1)
        \/ RepoCatchRollback(1)

SpecTransfer == InitTransfer /\ [][NextTransfer]_vars

\* settlement runs called one after the other under a rate configured between
\* them
NextRate ==
  \/ \E t \in Tasks :
        \/ /\ Solo(t)
           /\ ops < MaxSeqOps
           /\ pre' = db
           /\ UNCHANGED <<rate, cdks, sched>>
           /\ \E p \in Periods : StartInterest(t, p)
        \/ RunProgress(t)
  \/ /\ Quiet
     /\ ops < MaxSeqOps
     /\ \E r \in Rates : SetMonthlyInterestRate(r)

SpecRate == Init /\ [][NextRate]_vars

\* two wallets holding 800.00 and 200.00, settled at the default rate
ExampleBalance(id) == IF id = "w1" THEN 800 * 100 * Cent ELSE 200 * 100 * Cent

InitExample ==
  db = Funded([w \in WalletIds |-> ExampleBalance(w)]) /\ InitRest /\ DefaultRate

NextExample ==
  \E t \in Tasks :
     \/ /\ Solo(t)
        /\ ops < MaxSeqOps
        /\ pre' = db
        /\ UNCHANGED <<rate, cdks, sched>>
        /\ \E p \in Periods : StartInterest(t, p)
     \/ RunProgress(t)

SpecExample == InitExample /\ [][NextExample]_vars

\* settlement runs, balance updates and rate changes, one after the other
NextSettle ==
  \/ \E t \in Tasks :
        \/ /\ Solo(t)
           /\ ops < MaxSeqOps
           /\ pre' = db
           /\ UNCHANGED <<rate, cdks, sched>>
           /\ \/ \E p \in Periods : StartInterest(t, p)
              \/ \E id \in PutIds : \E amount \in PutAmounts : PutBalance(t, id, amount)
        \/ RunProgress(t)
  \/ /\ Quiet
     /\ ops < MaxSeqOps
     /\ \E r \in Rates : SetMonthlyInterestRate(r)

SpecSettle == Init /\ [][NextSettle]_vars

\* settlement runs and sweeps called one after the other, with restarts of
\* the process, which leave rows PENDING or PROCESSING behind
MaxSweepOps == MaxSeqOps + 1

NextSweep ==
  \/ \E t \in Tasks :
        \/ /\ Solo(t)
           /\ ops < MaxSweepOps
           /\ pre' = db
           /\ UNCHANGED <<rate, cdks, sched>>
           /\ \/ \E p \in Periods : StartInterest(t, p)
              \/ StartSweep(t)
        \/ RunProgress(t)
  \/ /\ ops < MaxSweepOps
     /\ Crash

SpecSweep == Init /\ [][NextSweep]_vars

\* balance updates, through the repository and through the route, one after
\* the other on any funding
Values == {Value("number", n) : n \in PutAmounts} \cup {Value("NaN", 0), Value("string", 0)}

NextUpdate ==
  /\ ops < MaxSeqOps
  /\ pre' = db
  /\ UNCHANGED <<rate, cdks, sched>>
  /\ \E t \in Tasks : \E id \in PutIds :
        \/ \E value \in Values : UpdateBalance(t, id, value)
        \/ \E amount \in PutAmounts : PutBalance(t, id, amount)

SpecUpdate == InitTransfer /\ [][NextUpdate]_vars

\* every handler that appends a movement, interleaved at every await:
\* executeTransfer called directly (it validates nothing), third-party
\* payments and receipts, settlement runs under any rate, redemptions
DirectTransfers == {ById("w1", "w2", 0), ById("w1", "w2", -Cent), ById("w2", "w1", Cent)}
RedeemCodes == {NoRef, "k1", "kX", "bad"}

NextMovements ==
  \/ /\ \E t \in Tasks :
          \/ /\ ops < MaxOps
             /\ \/ \E req \in DirectTransfers : CallExecuteTransfer(t, req)
                \/ \E req \in ConcurrentThirdParty : PostThirdParty(t, req[1], req[2])
                \/ \E p \in Periods : StartInterest(t, p)
                \/ \E code \in RedeemCodes : \E name \in RefNames : PostRedeem(t, code, name)
             /\ UNCHANGED <<cdks, sched>>
          \/ Step(t) /\ UNCHANGED <<cdks, sched>>
          \/ RedeemStep(t)
     /\ UNCHANGED <<pre, rate>>
  \/ /\ ops < MaxOps
     /\ \E r \in Rates : SetMonthlyInterestRate(r)

SpecMovements == Init /\ [][NextMovements]_vars

\* one third-party payment or receipt, any request, on any funding
ExtAmounts == {0, Cent + 1, 2 * Cent, 4 * Cent}

\* fundings of the paying wallet, one of them between an amount and amount + fee
ExtBalances == Balances \cup {2 * Cent}

InitThirdParty ==
  db \in {Funded(b) : b \in [WalletIds -> ExtBalances]} /\ InitRest /\ DefaultRate

NextThirdParty ==
  \/ /\ ops = 0
     /\ pre' = db
     /\ UNCHANGED <<rate, cdks, sched>>
     /\ \E kind \in {"payment", "receipt"} :
          \E id \in RefIds : \E name \in RefNames : \E a \in ExtAmounts :
             PostThirdParty(1, kind, ExtRequest(id, name, a))
  \/ /\ UNCHANGED <<pre, rate, cdks, sched>>
     /\ \/ ExtBegin(1)
        \/ ExtFind(1)
        \/ ExtEarlyRollback(1)
        \/ ExtUpdate(1)
        \/ ExtInsert(1)
        \/ ExtCommit(1)
        \/ ExtCatchRollback(1)

SpecThirdParty == InitThirdParty /\ [][NextThirdParty]_vars

\* creations of wallets, through the route and through the repository, two at
\* a time; the usernames tried hold a digit, padding, one letter or nothing
Usernames == {<<"a", "b">>, <<" ", "a", "b">>, <<"a", "b", " ">>, <<"a", "1">>,
              <<"a">>, <<>>}
InitialBalances == {[type |-> "undefined", n |-> 0], [type |-> "number", n |-> 0],
                    [type |-> "number", n |-> Cent], [type |-> "string", n |-> 0]}

NextCreate ==
  \/ /\ ops < MaxOps
     /\ UNCHANGED <<pre, rate, cdks, sched>>
     /\ \E t \in Tasks : \E username \in Usernames : \E balance \in InitialBalances :
           \/ PostWallet(t, username, balance)
           \/ CallCreate(t, username, balance)
  \/ /\ UNCHANGED <<pre, rate, cdks, sched>>
     /\ \E t \in Tasks : CreateStep(t)

SpecCreate == Init /\ [][NextCreate]_vars

\* deletions of wallets interleaved at every await with the handlers that
\* append movements, on fundings that leave a wallet without movements
DeleteRequests == {ById("w1", "w2", Cent), ById("w2", "w1", Cent)}
DeleteThirdParty == {<<"payment", ExtRequest("w1", NoRef, Cent)>>,
                     <<"receipt", ExtRequest("w2", NoRef, Cent)>>,
                     <<"receipt", ExtRequest(NoRef, "alice", Cent)>>}

NextDelete ==
  \/ /\ ops < MaxOps
     /\ UNCHANGED <<pre, rate, cdks, sched>>
     /\ \E t \in Tasks :
           \/ \E id \in RefIds \ {NoRef} : CallDelete(t, id)
           \/ \E req \in DeleteRequests : PostTransfer(t, req)
           \/ \E req \in DeleteThirdParty : PostThirdParty(t, req[1], req[2])
  \/ /\ UNCHANGED <<pre, rate, cdks, sched>>
     /\ \E t \in Tasks : Step(t) \/ DeleteStep(t)

SpecDelete == InitTransfer /\ [][NextDelete]_vars

\* =========================================================================
\* properties
\* =========================================================================
RECURSIVE SumOver(_, _)
SumOver(b, ids) ==
  IF ids = {} THEN 0
  ELSE LET id == CHOOSE x \in ids : TRUE IN b[id] + SumOver(b, ids \ {id})

TotalBalance(d) == SumOver(d.bal, WalletIds)

\* the transfer that returned last, with both wallets resolved
LastTransfer == Quiet /\ last.kind = "transfer"
LastResolved == last.src \in WalletIds /\ last.dst \in WalletIds

\* C1: a transfer of amount A from account X to a different account Y that
\* succeeds, whether the accounts were named by id or by username, leaves X
\* lower by exactly A, Y higher by exactly A and every other balance as it was,
\* appends exactly one movement of kind 'transfer' from X to Y of amount A, and
\* leaves the sum of all balances unchanged.
C1_TransferMovesExactlyA ==
  (LastTransfer /\ last.outcome = "ok" /\ LastResolved /\ last.src # last.dst) =>
     /\ db.bal[last.src] = pre.bal[last.src] - last.amount
     /\ db.bal[last.dst] = pre.bal[last.dst] + last.amount
     /\ \A w \in WalletIds \ {last.src, last.dst} : db.bal[w] = pre.bal[w]
     /\ db.txs = Append(pre.txs, Movement(last.src, last.dst, last.amount, "transfer", 0))
     /\ TotalBalance(db) = TotalBalance(pre)
     /\ ~inTx

\* a transfer between two different funded wallets has succeeded
C1_Witness ==
  /\ LastTransfer /\ last.outcome = "ok" /\ LastResolved /\ last.src # last.dst
  /\ last.amount > 0 /\ pre.bal[last.dst] > 0

\* the transfer-like call that returned last: the route's executeTransfer or
\* WalletRepository.transfer
LastMove == Quiet /\ last.kind \in {"transfer", "repoTransfer"}

\* C2: a transfer between two different existing accounts whose amount exceeds
\* the source's balance, once it has passed the validation of its amount and
\* references, fails with the insufficient-funds outcome, leaves every balance
\* and the movement log unchanged, and leaves no transaction open.
C2_InsufficientChangesNothing ==
  (/\ LastMove /\ LastResolved /\ last.src # last.dst
   /\ last.amount > pre.bal[last.src]
   /\ last.outcome \notin {"invalid", "self"}) =>
     /\ last.outcome = "insufficient"
     /\ db = pre
     /\ ~inTx

\* the insufficient-funds outcome has been returned on a funded source
C2_Witness ==
  /\ LastMove /\ last.outcome = "insufficient"
  /\ pre.bal[last.src] > 0 /\ last.amount > pre.bal[last.src]

\* C3: a transfer whose source and destination resolve to the same account
\* never succeeds, changes no balance and appends no movement, whichever of
\* id and username each side was named by.
C3_SelfTransferChangesNothing ==
  (LastTransfer /\ last.src \in WalletIds /\ last.src = last.dst) =>
     /\ last.outcome \in {"self", "invalid"}
     /\ db = pre
     /\ ~inTx

\* the check on the resolved wallets (one side by id, the other by username)
\* has rejected a transfer of an amount the wallet could pay
C3_Witness ==
  \E t \in Tasks :
    /\ tasks[t].kind = "transfer" /\ tasks[t].pc = "earlyRollback"
    /\ tasks[t].outcome = "self"
    /\ tasks[t].req.amount > 0
    /\ tasks[t].req.amount <= tasks[t].fromWallet.balance

\* a transfer has failed after one of its writes and has not rolled back yet
FailedPartial(t) ==
  /\ tasks[t].kind = "transfer" /\ tasks[t].pc = "catchRollback"
  /\ inTx
  /\ (db.bal # snap.bal \/ db.txs # snap.txs)

\* the step is a GET /api/wallets/:walletId answered from the connection
ReadStep == ops' = ops + 1 /\ tasks' = tasks /\ last'.kind = "read"

\* C4: once a transfer has opened its atomic scope and a later step of it
\* fails, no other operation observes a state in which only part of the
\* transfer is applied: no wallet read is answered with a balance that the
\* failed transfer wrote and is about to roll back.
C4_NoPartialTransferObserved ==
  [][ReadStep =>
        ~ \E t \in Tasks : FailedPartial(t) /\ db.bal[last'.src] # snap.bal[last'.src]]_vars

\* what a task about to check or write a balance believes that balance to be
HeldBalances(k) ==
  IF k.kind \in {"transfer", "repoTransfer"} /\ k.pc \in {"findTo", "updFrom"}
    THEN {<<k.fromWallet.id, k.fromWallet.balance>>}
  ELSE IF k.kind \in {"transfer", "repoTransfer"} /\ k.pc = "updTo"
    THEN {<<k.toWallet.id, k.toWallet.balance>>}
  ELSE IF IsExt(k) /\ k.pc = "update"
    THEN {<<k.fromWallet.id, k.fromWallet.balance>>}
  ELSE IF IsRun(k) /\ k.pc = "update"
    THEN {<<k.wallets[k.i].id, k.wallets[k.i].balance>>}
  ELSE {}

RECURSIVE Replay(_, _)
\* the balance of wallet w that the movements of txs add up to
Replay(txs, w) ==
  IF txs = <<>> THEN 0
  ELSE LET m == Head(txs) IN
       (IF m.to_wallet_id = w THEN m.amount ELSE 0)
       - (IF m.from_wallet_id = w THEN m.amount ELSE 0)
       + Replay(Tail(txs), w)

\* C5: under every interleaving of transfers, third-party payments and
\* receipts and settlement runs no update of a balance is lost: whenever an
\* operation checks a balance against an amount or writes a new balance, the
\* balance it read is the current one, which it alone may have changed since
\* the last commit; and every committed balance is the sum of the committed
\* credits to the wallet minus the committed debits from it.
C5_NoLostUpdate ==
  /\ \A t \in Tasks : \A h \in HeldBalances(tasks[t]) :
        /\ inTx
        /\ h[2] = db.bal[h[1]]
  /\ \A t \in Tasks :
        (tasks[t].pc = "findTo" /\ tasks[t].kind \in {"transfer", "repoTransfer"}) =>
           tasks[t].fromWallet.balance = snap.bal[tasks[t].fromWallet.id]
  /\ \A w \in WalletIds : Committed.bal[w] = Replay(Committed.txs, w)

\* two operations overlap: one is about to write the balance it read while
\* the other has been called and has not yet issued its BEGIN
C5_Witness ==
  \E t \in Tasks : \E u \in Tasks \ {t} :
    /\ tasks[t].pc \in {"updFrom", "update"}
    /\ tasks[u].pc = "begin"
    /\ HeldBalances(tasks[t]) # {}

\* interest movements of a period credited to a wallet, among txs
InterestMovements(txs, period, w) ==
  {i \in 1..Len(txs) :
     /\ txs[i].transaction_type \in {"interest_credit", "interest_debit"}
     /\ txs[i].description = period
     /\ txs[i].to_wallet_id = w}

\* the settlement run called on its own (route, monthly job) returned last
LastRun == Quiet /\ last.kind = "interest"

\* the period was COMPLETED when the handler that returned last was called
PreCompleted(p) == \E r \in pre.logs : r.period = p /\ r.status = "COMPLETED"
PreLog(p) == CHOOSE r \in pre.logs : r.period = p /\ r.status = "COMPLETED"

Earns(balance) == Abs(CalculateInterest(balance)) > 0

\* interest movements of period p to wallet w appended since the call
NewInterestMovements(p, w) ==
  InterestMovements(db.txs, p, w) \ InterestMovements(pre.txs, p, w)

\* C6: of two runs of the same period called one after the other, the first
\* that succeeds creates one set of interest movements (one for each wallet
\* that earns interest) and leaves the log COMPLETED with its counters; a run
\* called when the period is COMPLETED returns success with the stored
\* processedCount and totalInterest and changes no movement, no balance and no
\* log row; and a sweep leaves the rows, movements and balances of a COMPLETED
\* period as they were.
C6_SettlementIdempotent ==
  /\ (LastRun /\ last.outcome = "ok") =>
        \E r \in db.logs :
           /\ r.period = last.period /\ r.status = "COMPLETED"
           /\ r.processed_count = last.processedCount
           /\ r.total_interest = last.totalInterest
  /\ (LastRun /\ last.outcome = "ok" /\ ~PreCompleted(last.period)) =>
        \A w \in WalletIds :
           Cardinality(NewInterestMovements(last.period, w)) =
              IF Earns(pre.bal[w]) THEN 1 ELSE 0
  /\ (LastRun /\ PreCompleted(last.period)) =>
        /\ last.outcome = "ok"
        /\ last.processedCount = PreLog(last.period).processed_count
        /\ last.totalInterest = PreLog(last.period).total_interest
        /\ db = pre
  /\ (Quiet /\ last.kind = "sweep") =>
        \A p \in Periods : PreCompleted(p) =>
           /\ {r \in db.logs : r.period = p} = {r \in pre.logs : r.period = p}
           /\ \A w \in WalletIds : NewInterestMovements(p, w) = {}

\* the second run of a period that had credited interest has returned
C6_Witness ==
  /\ LastRun /\ PreCompleted(last.period)
  /\ last.processedCount > 0 /\ last.totalInterest > 0

\* C7: over all interleavings and overlapping runs, the committed movements
\* hold at most one interest movement per period and account.
C7_InterestAtMostOnce ==
  \A p \in Periods, w \in WalletIds :
     Cardinality(InterestMovements(Committed.txs, p, w)) <= 1

\* C8: interest_logs holds at most one row per period, also when two runs of
\* the same period start concurrently.
C8_OneLogRowPerPeriod ==
  \A p \in Periods : Cardinality({r \in Committed.logs : r.period = p}) <= 1

LogTransitions == {<<"PENDING", "PROCESSING">>, <<"PROCESSING", "COMPLETED">>,
                   <<"PROCESSING", "FAILED">>, <<"FAILED", "PROCESSING">>}

\* C9: the status of a log row changes only PENDING -> PROCESSING,
\* PROCESSING -> COMPLETED, PROCESSING -> FAILED or FAILED -> PROCESSING, and a
\* row that is COMPLETED stays COMPLETED, under every interleaving.
C9_LogStatusTransitions ==
  [][\A r \in db.logs :
        /\ \A q \in db'.logs :
              (q.id = r.id /\ q.status # r.status) => <<r.status, q.status>> \in LogTransitions
        /\ r.status = "COMPLETED" =>
              \E q \in db'.logs : q.id = r.id /\ q.status = "COMPLETED"]_vars

\* C10: a run that fails while it processes an account changes no balance and
\* keeps no interest movement of the period, sets the period's log to FAILED
\* with the error message, and returns the failure as its result; until its
\* commit nothing the run wrote is durable, and at its commit every wallet
\* that earns interest has been settled, so a run never settles only some.
C10_FailedRunChangesNothing ==
  /\ (LastRun /\ last.outcome = "failed") =>
        /\ db.bal = pre.bal
        /\ db.txs = pre.txs
        /\ ~inTx
        /\ \E r \in db.logs :
              r.period = last.period /\ r.status = "FAILED" /\ r.error_message # ""
  /\ \A t \in Tasks :
        (tasks[t].kind = "interest" /\ tasks[t].pc # "setCompleted") =>
           Committed.bal = pre.bal /\ Committed.txs = pre.txs
  /\ \A t \in Tasks :
        (tasks[t].kind = "interest" /\ tasks[t].pc = "setCompleted") =>
           \A w \in WalletIds :
              /\ Cardinality(NewInterestMovements(tasks[t].period, w)) =
                    IF Earns(pre.bal[w]) THEN 1 ELSE 0
              /\ db.bal[w] = pre.bal[w] + CalculateInterest(pre.bal[w])

\* a run has failed on its second account, after it had settled the first
C10_SettledThenFailed(t) ==
  /\ tasks[t].kind = "interest" /\ tasks[t].pc = "rollback"
  /\ tasks[t].processedCount >= 1
  /\ db.bal # snap.bal

C10_Witness == \E t \in Tasks : C10_SettledThenFailed(t)

\* the sweep (checkAnd补发Interest) called on its own returned last
LastSweep == Quiet /\ last.kind = "sweep"

PreFailed(p) == \E r \in pre.logs : r.period = p /\ r.status = "FAILED"
PreRetryable(p) == \E r \in pre.logs : r.period = p /\ r.status \in {"PENDING", "FAILED"}

\* interest movements of period p appended since the call, to any wallet
NewInterestOf(p) == UNION {NewInterestMovements(p, w) : w \in WalletIds}

RECURSIVE SignedSum(_, _)
\* signed sum of the interest the movements at the indexes idx applied
SignedSum(txs, idx) ==
  IF idx = {} THEN 0
  ELSE LET i == CHOOSE x \in idx : TRUE
           signed == IF txs[i].transaction_type = "interest_debit"
                       THEN -txs[i].amount ELSE txs[i].amount
       IN signed + SignedSum(txs, idx \ {i})

\* C11: when a period's log is FAILED after a run that aborted mid-loop, a
\* sweep re-runs that period and no period that was not PENDING or FAILED;
\* when the sweep succeeds the period's log is COMPLETED with processed_count
\* equal to the number of interest movements the re-run appended and
\* total_interest equal to their signed sum, and every wallet holds the
\* period's interest exactly once (none is left from the aborted run).
C11_SweepRetriesFailedPeriod ==
  (LastSweep /\ last.outcome = "ok") =>
     /\ \A p \in Periods : PreFailed(p) =>
           /\ \E r \in db.logs :
                 /\ r.period = p /\ r.status = "COMPLETED"
                 /\ r.processed_count = Cardinality(NewInterestOf(p))
                 /\ r.total_interest = SignedSum(db.txs, NewInterestOf(p))
           /\ \A w \in WalletIds :
                 /\ InterestMovements(db.txs, p, w) = NewInterestMovements(p, w)
                 /\ Cardinality(InterestMovements(db.txs, p, w)) <= 1
                 /\ Earns(pre.bal[w]) => Cardinality(InterestMovements(db.txs, p, w)) = 1
     /\ \A p \in Periods : ~PreRetryable(p) =>
           /\ {r \in db.logs : r.period = p} = {r \in pre.logs : r.period = p}
           /\ NewInterestOf(p) = {}

\* a sweep has re-run a FAILED period and credited interest
C11_Witness ==
  /\ LastSweep /\ last.outcome = "ok"
  /\ \E p \in Periods : PreFailed(p) /\ NewInterestOf(p) # {}

Completed(p) == \E r \in db.logs : r.period = p /\ r.status = "COMPLETED"

\* C12: a sweep that runs after a restart re-runs every period whose log row
\* the terminated run left in PROCESSING, so that once such a sweep has
\* returned no row is still PROCESSING.
C12_SweepRetriesProcessing ==
  LastSweep => \A r \in db.logs : r.status # "PROCESSING"

\* no handler is running and the period's row is PROCESSING: its run was
\* terminated with the process
Abandoned(p) == Quiet /\ \E r \in db.logs : r.period = p /\ r.status = "PROCESSING"

\* C13: while sweeps keep firing and started runs keep executing, every period
\* whose run was cut short by a crash eventually reaches COMPLETED.
C13_AbandonedEventuallyCompleted ==
  \A p \in Periods : Abandoned(p) ~> Completed(p)

\* C14: in every state, for every wallet, the committed balance equals the
\* sum of the amounts of the committed movements whose to-wallet it is minus
\* the sum of those whose from-wallet it is, after any sequence of transfers,
\* third-party payments and receipts, balance updates and settlement runs.
C14_LedgerReconciles ==
  \A w \in WalletIds : Committed.bal[w] = Replay(Committed.txs, w)

\* C15: no step commits a change of a wallet's balance without committing a
\* movement with it: whenever the committed balances change, the committed
\* movements change in the same step.
C15_BalanceChangeHasMovement ==
  [][Committed.bal' # Committed.bal => Committed.txs' # Committed.txs]_vars

\* a run is refused the balance it computed for the wallet at hand
RunRefused(t) ==
  LET k == tasks[t] IN
  /\ IsRun(k) /\ k.pc = "rollback" /\ k.i \in DOMAIN k.wallets
  /\ k.wallets[k.i].balance + CalculateInterest(k.wallets[k.i].balance) < 0

\* C17: in every state every wallet balance, committed or written inside an
\* open transaction, is >= 0, under every interleaving of transfers,
\* third-party payments and receipts, balance updates and settlement runs and
\* for every configured rate; a run that would store a negative balance fails.
C17_BalancesNonNegative ==
  /\ \A w \in WalletIds : db.bal[w] >= 0 /\ Committed.bal[w] >= 0
  /\ \A t \in Tasks : RunRefused(t) => db.bal[tasks[t].wallets[tasks[t].i].id] >= 0

\* a run under a rate below -100% reached a wallet with a positive balance
C17_Witness == \E t \in Tasks : RunRefused(t) /\ rate < -RateDen

\* C18: in every state every committed balance and every committed movement
\* amount is a whole number of hundredths, settlement runs included.
C18_TwoDecimalsEverywhere ==
  /\ \A w \in WalletIds : TwoDecimals(Committed.bal[w])
  /\ \A i \in DOMAIN Committed.txs : TwoDecimals(Committed.txs[i].amount)

\* the third-party payment or receipt that returned last succeeded
LastExt(kind) == Quiet /\ last.kind = kind /\ last.outcome = "ok"

\* fee is a whole number of hundredths nearest to 30% of amount
IsFee(fee, amount) == TwoDecimals(fee) /\ Abs(10 * fee - 3 * amount) <= 5 * Cent

\* C16: a third-party payment of amount A that succeeds lowers the wallet's
\* balance by exactly A + fee, where fee is 30% of A rounded to hundredths,
\* leaves every other balance as it was and appends exactly one movement
\* 'third_party_payment' with from = the wallet, to = null and amount A + fee;
\* a receipt of amount A that succeeds raises the balance by exactly A and
\* appends one movement 'third_party_receipt' of amount A with from = null.
C16_ThirdPartyAmounts ==
  /\ LastExt("payment") =>
       \E fee \in 0..last.amount :
          /\ IsFee(fee, last.amount)
          /\ db.bal[last.src] = pre.bal[last.src] - (last.amount + fee)
          /\ \A w \in WalletIds \ {last.src} : db.bal[w] = pre.bal[w]
          /\ db.txs = Append(pre.txs, Movement(last.src, NoRef, last.amount + fee,
                                               "third_party_payment", 0))
  /\ LastExt("receipt") =>
       /\ db.bal[last.dst] = pre.bal[last.dst] + last.amount
       /\ \A w \in WalletIds \ {last.dst} : db.bal[w] = pre.bal[w]
       /\ db.txs = Append(pre.txs, Movement(NoRef, last.dst, last.amount,
                                            "third_party_receipt", 0))

\* a payment that carries a fee has succeeded
C16_Witness ==
  LastExt("payment") /\ db.bal[last.src] < pre.bal[last.src] - last.amount

\* the run of task t appends the movement of the wallet at hand in this step
Inserts(t) ==
  /\ IsRun(tasks[t]) /\ tasks[t].pc = "insert"
  /\ Len(db'.txs) = Len(db.txs) + 1

\* C20: when a settlement run records the interest of a wallet, a positive
\* interest appends one 'interest_credit' movement with to = the wallet and
\* from = null, a negative interest appends one 'interest_debit' movement with
\* from = the wallet and to = null; the amount is the positive size of the
\* interest and the balance has moved by the interest.
C20_InterestDirection ==
  [][\A t \in Tasks : Inserts(t) =>
        LET wallet == tasks[t].wallets[tasks[t].i]
            interest == CalculateInterest(wallet.balance)
            m == db'.txs[Len(db'.txs)]
        IN /\ m.amount = Abs(interest) /\ m.amount > 0
           /\ db.bal[wallet.id] = wallet.balance + interest
           /\ interest > 0 => /\ m.transaction_type = "interest_credit"
                              /\ m.to_wallet_id = wallet.id /\ m.from_wallet_id = NoRef
           /\ interest < 0 => /\ m.transaction_type = "interest_debit"
                              /\ m.from_wallet_id = wallet.id /\ m.to_wallet_id = NoRef
    ]_vars

\* the movements appended since the handler that returned last was called
Appended == {db.txs[i] : i \in (Len(pre.txs) + 1)..Len(db.txs)}

\* C19: with wallet A at 800.00 and wallet B at 200.00, the first settlement
\* run that succeeds appends interest-credit movements of 6.66 to A and 1.66
\* to B, leaves the balances 806.66 and 201.66 and records processedCount = 2
\* in the log of the period.
C19_ExampleRun ==
  (LastRun /\ last.outcome = "ok" /\ pre.logs = {}) =>
     /\ Appended = {Movement(NoRef, "w1", 666 * Cent, "interest_credit", last.period),
                    Movement(NoRef, "w2", 166 * Cent, "interest_credit", last.period)}
     /\ db.bal["w1"] = 80666 * Cent
     /\ db.bal["w2"] = 20166 * Cent
     /\ last.processedCount = 2
     /\ \E r \in db.logs : r.period = last.period /\ r.processed_count = 2

\* what the handler that returned last added to the balance of wallet w
Applied(w) == db.bal[w] - pre.bal[w]

\* C21: after a settlement run of period P that succeeds, the log of P is
\* COMPLETED, its processed_count is the number of wallets whose balance the
\* run moved, its total_interest is the signed sum of what the run added to
\* the balances, both equal the count and the signed sum of the interest
\* movements the run appended, and processed_count is at most total_wallets.
C21_LogCountersMatchRun ==
  (LastRun /\ last.outcome = "ok" /\ ~PreCompleted(last.period)) =>
     /\ \E r \in db.logs : r.period = last.period
     /\ \A r \in db.logs : r.period = last.period =>
           /\ r.status = "COMPLETED"
           /\ r.processed_count = Cardinality({w \in WalletIds : Applied(w) # 0})
           /\ r.total_interest = SumOver([w \in WalletIds |-> Applied(w)], WalletIds)
           /\ r.processed_count = Cardinality(NewInterestOf(last.period))
           /\ r.total_interest = SignedSum(db.txs, NewInterestOf(last.period))
           /\ Len(db.txs) = Len(pre.txs) + r.processed_count
           /\ r.processed_count <= r.total_wallets

\* a run has debited one wallet and skipped another that earns nothing
C21_Witness ==
  /\ LastRun /\ last.outcome = "ok" /\ ~PreCompleted(last.period)
  /\ \E w \in WalletIds : \E v \in WalletIds : Applied(w) < 0 /\ Applied(v) = 0

\* the log rows of period p
RowsOf(d, p) == {r \in d.logs : r.period = p}

Range(seq) == {seq[i] : i \in DOMAIN seq}

\* C22: a sweep re-runs exactly the periods that were PENDING or FAILED when
\* it queried the log, oldest first: while it is at one period, the periods it
\* still holds are the later PENDING or FAILED ones, in ascending order, and
\* their rows and movements are as they were; it never holds a COMPLETED
\* period; once it has returned, no queried period is left PENDING, and the
\* rows and movements of every other period, COMPLETED ones included, are as
\* they were and the balances have moved by the re-run periods' interest only.
C22_SweepOrderAndFrame ==
  /\ \A t \in Tasks : tasks[t].kind = "sweep" =>
        LET k == tasks[t] IN
        /\ k.pending # <<>> /\ k.period = k.pending[1]
        /\ \A i \in DOMAIN k.pending :
              PreRetryable(k.pending[i]) /\ ~PreCompleted(k.pending[i])
        /\ \A i \in DOMAIN k.pending : \A j \in DOMAIN k.pending :
              i < j => k.pending[i] < k.pending[j]
        /\ \A p \in Periods : (PreRetryable(p) /\ p > k.period) =>
              /\ p \in Range(k.pending)
              /\ RowsOf(db, p) = RowsOf(pre, p)
              /\ NewInterestOf(p) = {}
        /\ \A p \in Periods : (PreRetryable(p) /\ p < k.period) =>
              /\ p \notin Range(k.pending)
              /\ \A r \in RowsOf(db, p) : r.status \in {"COMPLETED", "FAILED"}
  /\ LastSweep =>
        /\ \A p \in Periods : PreRetryable(p) =>
              \A r \in RowsOf(db, p) : r.status \in {"COMPLETED", "FAILED"}
        /\ \A p \in Periods : ~PreRetryable(p) =>
              /\ RowsOf(db, p) = RowsOf(pre, p)
              /\ NewInterestOf(p) = {}
        /\ \A w \in WalletIds :
              Applied(w) = SignedSum(db.txs, UNION {NewInterestMovements(p, w) :
                                                      p \in {q \in Periods : PreRetryable(q)}})

\* a sweep that found two periods to re-run has finished the older one and
\* is at the newer one
C22_Witness ==
  \E t \in Tasks :
    /\ tasks[t].kind = "sweep"
    /\ \E p \in Periods : PreRetryable(p) /\ p < tasks[t].period

LastUpdate == last.kind = "updateBalance"

\* C24: updateBalance(id, newBalance) fails and changes nothing when
\* newBalance is negative or not a number, fails as not found when no wallet
\* has the id, and when it succeeds the named wallet holds newBalance and every
\* other wallet, every movement and every log row is as it was.
C24_UpdateBalanceContract ==
  LastUpdate =>
     /\ (last.type # "number" \/ last.amount < 0) => last.outcome # "ok"
     /\ (last.type = "number" /\ last.amount >= 0 /\ last.src \notin WalletIds) =>
           last.outcome = "notfound"
     /\ (last.type = "number" /\ last.amount >= 0 /\ last.src \in WalletIds) =>
           last.outcome = "ok"
     /\ last.outcome # "ok" => db = pre
     /\ last.outcome = "ok" =>
           db = [pre EXCEPT !.bal[last.src] = last.amount]

\* updateBalance has been refused a string on a wallet that had been updated
C24_Witness ==
  /\ LastUpdate /\ last.type = "string" /\ last.src \in WalletIds
  /\ pre.bal[last.src] # Replay(pre.txs, last.src)

\* the handler of task record k is about to create a movement that
\* TransactionRepository.create has to refuse
AtRefusedCreate(k) ==
  \/ k.kind = "transfer" /\ k.pc = "insTx" /\ k.req.amount <= 0
  \/ k.kind = "redeem" /\ k.pc = "insert"

WellFormed(m) ==
  /\ m.amount > 0
  /\ m.transaction_type \in {"transfer", "initial_deposit", "interest_credit",
                             "interest_debit", "third_party_payment",
                             "third_party_receipt"}
  /\ m.from_wallet_id # NoRef \/ m.to_wallet_id # NoRef

C27_BadAmountRejected ==
  (LastTransfer /\ (last.amount <= 0 \/ ~TwoDecimals(last.amount))) =>
     /\ last.outcome # "ok"
     /\ db = pre


C30_PaymentNeedsAmountPlusFee ==
  (/\ Quiet /\ last.kind = "payment" /\ last.src \in WalletIds
   /\ last.outcome # "invalid"
   /\ \A fee \in 0..last.amount :
         IsFee(fee, last.amount) => pre.bal[last.src] < last.amount + fee) =>
     /\ last.outcome = "insufficient"
     /\ db = pre
     /\ ~inTx

\* a payment was rejected although the wallet held the amount without the fee
C30_Witness ==
  /\ Quiet /\ last.kind = "payment" /\ last.outcome = "insufficient"
  /\ last.amount > 0 /\ pre.bal[last.src] >= last.amount


\* rows is txs with zero or more rows appended
Extends(rows, txs) ==
  /\ Len(rows) >= Len(txs)
  /\ \A i \in DOMAIN txs : rows[i] = txs[i]

\* C29: movements are append-only: no step of a transfer, a third-party
\* payment or receipt, a redemption or a settlement run changes a field of a
\* committed movement or removes one; the committed movements only grow.
C29_MovementsAppendOnly ==
  [][Extends(Committed'.txs, Committed.txs)]_vars

\* a handler has failed and rolled back after movements were committed
C29_Witness ==
  /\ Quiet /\ last.outcome = "error" /\ ~inTx
  /\ Len(db.txs) > Len(pre.txs)


\* every created wallet starts with balance 0
CreatedAtZero == \A r \in db.created : r.balance = 0

\* no two wallets share a username
OwnersUnique ==
  \A r1 \in db.created : \A r2 \in db.created :
     r1.username = r2.username => r1 = r2

\* every stored username consists of letters only
OwnersLettersOnly == \A r \in db.created : LettersOnly(r.username)

\* C23: creating a wallet fails and stores nothing when the username holds a
\* character other than a letter, when the username is taken or when an
\* initial balance other than 0 is given: every stored wallet has a
\* letters-only username and balance 0 and no two share a username, also
\* when creations run concurrently.
C23_CreationContract ==
  CreatedAtZero /\ OwnersUnique /\ OwnersLettersOnly


\* every wallet a row of txs names has a row in the wallets table of d
ReferencesExist(d) ==
  \A i \in DOMAIN d.txs :
     \A ref \in {d.txs[i].from_wallet_id, d.txs[i].to_wallet_id} \ {NoRef} :
        RowExists(d, ref)

\* C26: a wallet is never removed while a movement names it as from-wallet or
\* to-wallet: in every state, on the connection and in the committed
\* database, every non-null wallet reference of every movement names an
\* existing wallet, also when a delete interleaves with a handler that is
\* about to append a movement for that wallet.
C26_ReferencedWalletsExist ==
  ReferencesExist(db) /\ ReferencesExist(Committed)

\* a delete that counted no movement of the wallet was then refused, a
\* movement naming the wallet having been appended in between
C26_Witness ==
  /\ last.kind = "delete" /\ last.outcome = "constraint"
  /\ RowExists(db, last.src) /\ Referenced(Committed, last.src)


\* the handler is between its BEGIN, which succeeded, and the COMMIT or
\* ROLLBACK that ends its transaction
InBracket(k) ==
  \/ k.kind = "transfer" /\ k.pc \in {"findFrom", "findTo", "earlyRollback", "updFrom",
                                       "updTo", "insTx", "commit", "catchRollback"}
  \/ IsExt(k) /\ k.pc \in {"find", "earlyRollback", "update", "insert", "commit",
                           "catchRollback"}
  \/ IsRun(k) /\ k.pc \in {"findAll", "totalWallets", "update", "insert", "commit",
                           "rollback"}
  \/ k.kind = "redeem" /\ k.pc \in {"update", "insert", "save", "commit", "rollback"}

\* C31: transaction bracketing on the shared connection: a transaction is open
\* exactly while the one handler that began it is between its BEGIN and its
\* COMMIT or ROLLBACK, no handler ends a transaction it did not begin, and no
\* statement of another running handler writes inside that transaction (where
\* the owner's COMMIT or ROLLBACK would commit or discard it).
C31_TransactionBracketing ==
  /\ [](inTx <=> \E t \in Tasks : InBracket(tasks[t]))
  /\ [](\A t \in Tasks : \A u \in Tasks \ {t} :
           ~(InBracket(tasks[t]) /\ InBracket(tasks[u])))
  /\ [][\A t \in Tasks :
          (tasks'[t] # tasks[t] /\ inTx /\ (db' # db \/ ~inTx')) => InBracket(tasks[t])]_vars


\* the run of task t has read the list of wallets inside its transaction and
\* has still to write the wallet at index i or a later one
RunWindow(k) == IsRun(k) /\ k.pc \in {"update", "insert"}

\* C32: no transfer, payment or receipt commits between a settlement run's
\* read of the wallets and its write of a wallet's new balance: while the run
\* is there, every balance it has still to write from is the current and the
\* committed one, so the balance it writes keeps every committed transfer, and
\* the interest movement it appends equals the change of the balance it applied.
C32_RunReadsAreCurrent ==
  /\ [](\A t \in Tasks : RunWindow(tasks[t]) =>
          /\ inTx
          /\ \A j \in DOMAIN tasks[t].wallets :
                (j > tasks[t].i \/ (j = tasks[t].i /\ tasks[t].pc = "update")) =>
                   /\ tasks[t].wallets[j].balance = db.bal[tasks[t].wallets[j].id]
                   /\ tasks[t].wallets[j].balance = snap.bal[tasks[t].wallets[j].id])
  /\ [][\A t \in Tasks : Inserts(t) =>
          LET w == tasks[t].wallets[tasks[t].i].id IN
          db'.txs[Len(db'.txs)].amount = Abs(db.bal[w] - snap.bal[w])]_vars

\* a transfer, payment or receipt on the wallet the run is about to write was
\* refused its BEGIN inside the run's transaction, and the run is still
\* before its write
C32_Witness ==
  /\ last.kind \in {"transfer", "payment", "receipt"}
  /\ last.outcome = "error" /\ faults = 0
  /\ \E t \in Tasks : /\ RunWindow(tasks[t]) /\ tasks[t].pc = "update"
                       /\ tasks[t].wallets[tasks[t].i].id \in {last.src, last.dst}


\* the interest movements of a period among txs
PeriodMovements(txs, period) ==
  {i \in 1..Len(txs) : /\ txs[i].transaction_type \in {"interest_credit", "interest_debit"}
                       /\ txs[i].description = period}

\* the run of task t writes a balance in this step
RunWrites(t) ==
  /\ IsRun(tasks[t]) /\ tasks[t].pc = "update"
  /\ db'.bal # db.bal

\* C33: a run modifies a balance only while the log of its period is
\* PROCESSING, and a log is COMPLETED only after the run's transaction has
\* committed: in every state, when the log of a period is COMPLETED the
\* interest movements of the period are committed, as many as the log counts,
\* and none of the period is pending in an open transaction.
C33_LogLedgerOrdering ==
  /\ [][\A t \in Tasks : RunWrites(t) =>
          \A r \in db.logs : r.id = tasks[t].logId => r.status = "PROCESSING"]_vars
  /\ [](\A r \in db.logs : r.status = "COMPLETED" =>
          /\ Cardinality(PeriodMovements(Committed.txs, r.period)) = r.processed_count
          /\ PeriodMovements(db.txs, r.period) = PeriodMovements(Committed.txs, r.period))


\* ---------------------------------------------------------------------------
\* The sweep's report
\* ---------------------------------------------------------------------------

\* the rows left behind by runs that stopped between createInterestLog and
\* the PROCESSING update (lines 203-207): PENDING, nothing written yet
InterruptedLogs(periods) ==
  {[NoLog EXCEPT !.id = p, !.period = p, !.status = "PENDING"] : p \in periods}

InitReport ==
  /\ \E periods \in SUBSET Periods :
       db = [Funded([w \in WalletIds |-> InitBalance(w)]) EXCEPT
               !.logs = InterruptedLogs(periods)]
  /\ nextId = MaxPeriod + 1
  /\ inTx = FALSE
  /\ snap = NoDb
  /\ tasks = [t \in Tasks |-> Idle]
  /\ last = NoLast
  /\ pre = NoDb
  /\ cdks = LoadedCdks
  /\ sched = NoSched
  /\ ops = 0
  /\ faults = 0
  /\ DefaultRate

NextReport ==
  \E t \in Tasks :
    \/ /\ Solo(t)
       /\ ops < MaxSeqOps
       /\ pre' = db
       /\ UNCHANGED <<rate, cdks, sched>>
       /\ \/ \E p \in Periods : StartInterest(t, p)
          \/ StartSweep(t)
    \/ RunProgress(t)

SpecReport == InitReport /\ [][NextReport]_vars

EntryPeriods(entries) == [i \in 1..Len(entries) |-> entries[i].period]

\* C34: a sweep that has returned reports one entry for every period that was
\* PENDING or FAILED when it was called, in ascending order, also for the
\* periods that follow a failed one; it reports success exactly when every
\* entry succeeded, each successful entry's period is COMPLETED, and with no
\* PENDING or FAILED period it reports success with an empty list and leaves
\* the database as it was.
C34_SweepAttemptsEveryPeriod ==
  LastSweep =>
    /\ EntryPeriods(last.processedPeriods) = GetPendingInterestPeriods(pre)
    /\ (last.outcome = "ok") <=>
         \A i \in 1..Len(last.processedPeriods) : last.processedPeriods[i].success
    /\ \A i \in 1..Len(last.processedPeriods) :
         last.processedPeriods[i].success =>
           \E r \in db.logs : /\ r.period = last.processedPeriods[i].period
                              /\ r.status = "COMPLETED"
    /\ GetPendingInterestPeriods(pre) = <<>> =>
         /\ last.outcome = "ok"
         /\ last.processedPeriods = <<>>
         /\ db = pre

\* a sweep over two periods whose first run failed and whose second run was
\* still attempted and succeeded
C34_Witness ==
  /\ LastSweep
  /\ Len(last.processedPeriods) = 2
  /\ ~last.processedPeriods[1].success
  /\ last.processedPeriods[2].success
  /\ last.outcome = "failed"

\* a sweep that found nothing to do
C34_WitnessEmpty ==
  /\ LastSweep
  /\ last.processedPeriods = <<>>
  /\ pre.logs # {}


\* =========================================================================
\* services/InterestScheduler.js
\* =========================================================================

\* a job of node-schedule: the call of start() that scheduled it and what it
\* runs; sched.jobs holds the jobs that are scheduled and not cancelled
Job(n, kind) == [start |-> n, kind |-> kind]

\* start() up to `await ensureInterestTransactionTypes()` (lines 21-24); the
\* rest of start() runs in a later turn of the event loop
SchedulerStart ==
  /\ ops < MaxSeqOps
  /\ ops' = ops + 1
  /\ sched' = [sched EXCEPT !.starting = @ + 1, !.phase = "started"]
  /\ UNCHANGED <<db, inTx, snap, nextId, tasks, last, pre, faults, rate, cdks>>

\* lines 31-72: the two scheduleJob calls assign this.monthlyJob and
\* this.checkJob, whatever they referred to before, and checkMissingInterest()
\* is called without await: the sweep starts at once
SchedulerInstall(t) ==
  LET n == sched.installed + 1 IN
  /\ sched.starting > 0
  /\ sched' = [sched EXCEPT !.starting = @ - 1,
                            !.installed = n,
                            !.monthlyJob = n,
                            !.checkJob = n,
                            !.jobs = @ \cup {Job(n, "monthly"), Job(n, "check")}]
  /\ SweepCall(t)
  /\ UNCHANGED <<pre, ops, rate, cdks>>

\* lines 83-95: stop() cancels the jobs the two fields refer to
SchedulerStop ==
  /\ ops < MaxSeqOps
  /\ ops' = ops + 1
  /\ sched' = [sched EXCEPT !.jobs = @ \ {Job(sched.monthlyJob, "monthly"),
                                          Job(sched.checkJob, "check")},
                            !.monthlyJob = NoJob,
                            !.checkJob = NoJob,
                            !.phase = "stopped"]
  /\ UNCHANGED <<db, inTx, snap, nextId, tasks, last, pre, faults, rate, cdks>>

\* lines 31-44: a scheduled monthly job fires and calls
\* processMonthlyInterest() for the month of the clock
MonthlyJobFires(t, j) ==
  /\ j \in sched.jobs /\ j.kind = "monthly"
  /\ ops < MaxSweepOps
  /\ \E p \in Periods : StartInterest(t, p)
  /\ sched' = [sched EXCEPT !.fired = @ \cup {j}]
  /\ UNCHANGED <<pre, rate, cdks>>

\* lines 49-62: a scheduled daily job fires and calls the sweep
CheckJobFires(t, j) ==
  /\ j \in sched.jobs /\ j.kind = "check"
  /\ ops < MaxSweepOps
  /\ StartSweep(t)
  /\ sched' = [sched EXCEPT !.fired = @ \cup {j}]
  /\ UNCHANGED <<pre, rate, cdks>>

\* lines 129-134 and 140-145: the next invocation of the job the field refers
\* to (a date, here the job's number), or null
GetNextExecutionTime(s) ==
  IF s.monthlyJob # NoJob /\ Job(s.monthlyJob, "monthly") \in s.jobs
    THEN s.monthlyJob ELSE NoJob

GetNextCheckTime(s) ==
  IF s.checkJob # NoJob /\ Job(s.checkJob, "check") \in s.jobs
    THEN s.checkJob ELSE NoJob

\* routes/interests.js, GET /status: isRunning = !!nextExecutionTime
IsRunning(s) == GetNextExecutionTime(s) # NoJob

NextScheduler ==
  \/ SchedulerStart
  \/ SchedulerStop
  \/ \E t \in Tasks :
       \/ SchedulerInstall(t)
       \/ \E j \in sched.jobs : MonthlyJobFires(t, j)
       \/ \E j \in sched.jobs : CheckJobFires(t, j)
       \/ RunStep(t) /\ UNCHANGED <<pre, rate, cdks, sched>>

SpecScheduler == Init /\ [][NextScheduler]_vars

\* C35: a start() that gets to install schedules one monthly and one daily job
\* and launches a sweep at once; while the last lifecycle call is stop(), no
\* job is scheduled or fires, both next-time queries return null and the
\* status query reports isRunning = false.
C35_SchedulerLifecycle ==
  /\ [][sched'.installed # sched.installed =>
          /\ sched'.jobs \ sched.jobs = {Job(sched'.installed, "monthly"),
                                         Job(sched'.installed, "check")}
          /\ \/ \E t \in Tasks : tasks'[t].kind = "sweep" /\ tasks[t].kind # "sweep"
             \/ last'.kind = "sweep"]_vars
  /\ [](sched.phase = "stopped" =>
          /\ sched.jobs = {}
          /\ GetNextExecutionTime(sched) = NoJob
          /\ GetNextCheckTime(sched) = NoJob
          /\ ~IsRunning(sched))
  /\ [][sched.phase = "stopped" => sched'.fired = sched.fired]_vars


\* ---------------------------------------------------------------------------
\* DatabaseService.executeTransfer, one call at a time
\* ---------------------------------------------------------------------------
NextExecute ==
  \E t \in Tasks :
    \/ /\ Solo(t)
       /\ ops < MaxSeqOps
       /\ pre' = db
       /\ UNCHANGED <<rate, cdks, sched>>
       /\ \E f \in WalletIds, g \in WalletIds, a \in Amounts : ExecuteTransfer(t, f, g, a)
    \/ ExecuteStep(t) /\ UNCHANGED <<pre, rate, cdks, sched>>

SpecExecute == InitTransfer /\ [][NextExecute]_vars

LastExecute == Quiet /\ last.kind = "executeTransfer"

\* the balances of pre after amount has moved from one wallet to the other
Moved(d, from, to, amount) ==
  [w \in WalletIds |-> d.bal[w] - (IF w = from THEN amount ELSE 0)
                                + (IF w = to THEN amount ELSE 0)]

\* C36: a call of DatabaseService.executeTransfer that has returned either
\* moved the amount and appended the transfer movement, or left balances and
\* movements as they were.
C36_ExecuteTransferAtomic ==
  LastExecute =>
    \/ db.bal = pre.bal /\ db.txs = pre.txs
    \/ /\ last.outcome = "ok"
       /\ db.bal = Moved(pre, last.src, last.dst, last.amount)
       /\ db.txs = Append(pre.txs, Movement(last.src, last.dst, last.amount, "transfer", 0))


\* ---------------------------------------------------------------------------
\* Redemption codes
\* ---------------------------------------------------------------------------

\* the movements a redemption writes (lines 127-134)
CodeCredits(txs) == {i \in 1..Len(txs) : txs[i].transaction_type = "system"}

\* C37: the code is credited at most once, and a redemption of the ACTIVE code
\* for an existing account, called alone with no failing statement, succeeds:
\* the code is USED in memory and on file and its amount is credited once.
C37_CodeRedeemedOnce ==
  /\ Cardinality(CodeCredits(Committed.txs)) <= Cardinality(CdkKeys)
  /\ (Quiet /\ ops = 1 /\ faults = 0 /\ last.kind = "redeem" /\ last.dst # "none") =>
       /\ last.outcome = "ok"
       /\ \A c \in CdkKeys : cdks.mem[c] = "USED" /\ cdks.file[c] = "USED"
       /\ Cardinality(CodeCredits(db.txs)) = 1

\* the redemption of task t returns after one of its statements failed inside
\* its transaction
RedeemFails(t) ==
  /\ tasks[t].kind = "redeem" /\ tasks[t].pc = "rollback"
  /\ tasks'[t].pc = "idle"

====
